---- MODULE Spec2Model ----
(***************************************************************************)
(* Model of the storage layer of go-fun: task.Task validation, the         *)
(* file-backed JSONFileStorage, and the write-coalescing ConcurrentStorage *)
(* wrapper with its background auto-save worker.                           *)
(*                                                                         *)
(* A task is a record of the fields the storage code inspects: its ID, the *)
(* byte lengths of Title and Description (Task.Validate looks at nothing   *)
(* else of them), the number of Title bytes that are not valid UTF-8 (the  *)
(* JSON encoding replaces them), CreatedAt and UpdatedAt.  A collection is *)
(* a sequence, as the code's slices are.  Every handler is one action; the   *)
(* auto-save worker is a separate process whose select branches are        *)
(* actions of their own.  The export pipeline and the two stores taken     *)
(* step by step have specifications of their own further down.             *)
(***************************************************************************)
EXTENDS Integers, Sequences, FiniteSets, TLC

\* ---- program constants -------------------------------------------------
MaxTitleLen == 100
MaxDescLen == 500

\* ---- bounds of the model -----------------------------------------------
MaxTime == 1

IDs == {"a", "b"}
TitleLens == {0, MaxTitleLen}
DescLens == {MaxDescLen}
Times == 1..MaxTime

NoTask ==
    [ID |-> "", Title |-> 0, Description |-> 0, CreatedAt |-> 0, UpdatedAt |-> 0,
     BadBytes |-> 0]

\* ---- task.Task ----------------------------------------------------------
Validate(t) ==
    IF t.Title = 0 THEN "invalid"
    ELSE IF t.Title > MaxTitleLen THEN "invalid"
    ELSE IF t.Description > MaxDescLen THEN "invalid"
    ELSE "nil"

\* The task values callers pass in: per ID, a valid task for every creation
\* time and one task that Validate rejects; all as NewTask builds them, with
\* UpdatedAt = CreatedAt.
Tasks ==
    {t \in [ID : IDs, Title : TitleLens, Description : DescLens, CreatedAt : Times,
             UpdatedAt : Times, BadBytes : {0}] :
        /\ t.UpdatedAt = t.CreatedAt
        /\ Validate(t) # "nil" => t.CreatedAt = 1}

\* ---- slices -------------------------------------------------------------
IdsOf(s) == {s[i].ID : i \in 1..Len(s)}

DistinctIDs(s) == \A i, j \in 1..Len(s) : s[i].ID = s[j].ID => i = j

\* index of the first element with the given ID, 0 if there is none
\* (the `for i, existing := range ... if existing.ID == id ... break` loops)
IndexOf(s, id) ==
    IF \E i \in 1..Len(s) : s[i].ID = id
    THEN CHOOSE i \in 1..Len(s) :
            s[i].ID = id /\ \A j \in 1..(i - 1) : s[j].ID # id
    ELSE 0

\* index of the last element with the given ID (the winner of map inserts)
LastIndexOf(s, id) ==
    IF \E i \in 1..Len(s) : s[i].ID = id
    THEN CHOOSE i \in 1..Len(s) :
            s[i].ID = id /\ \A j \in (i + 1)..Len(s) : s[j].ID # id
    ELSE 0

\* append(s[:i], s[i+1:]...)
RemoveAt(s, i) == SubSeq(s, 1, i - 1) \o SubSeq(s, i + 1, Len(s))

\* every ordering of a finite set, as sequences
Orderings(S) ==
    {s \in [1..Cardinality(S) -> S] : \A i, j \in 1..Cardinality(S) : s[i] = s[j] => i = j}

\* the collections a caller hands to Save: records with pairwise distinct IDs
Collections ==
    UNION {{s \in [1..n -> Tasks] : DistinctIDs(s)} : n \in 0..Cardinality(IDs)}

\* ---- JSONFileStorage (the store the wrapper decorates) -------------------
\* The file's content is the persisted collection; an absent or empty file
\* loads as the empty collection.  loadFails / saveFails are the outcome of
\* the file system calls (read or decode error; mkdir, write or rename error).
JSONFileStorage_Load(f, loadFails) ==
    IF loadFails THEN [err |-> "io", tasks |-> << >>]
    ELSE [err |-> "nil", tasks |-> f]

\* json.MarshalIndent(tasks) as the collection its text decodes to.  The
\* encoder coerces strings to valid UTF-8: every invalid byte of the title
\* becomes U+FFFD, which is three bytes long.
Marshal(tasks) ==
    [j \in 1..Len(tasks) |->
        [tasks[j] EXCEPT !.Title = @ + 2 * tasks[j].BadBytes, !.BadBytes = 0]]

\* a failed Save leaves the file as it was (the rename never happened)
JSONFileStorage_Save(f, tasks, saveFails) ==
    IF saveFails THEN [err |-> "io", file |-> f]
    ELSE [err |-> "nil", file |-> Marshal(tasks)]

JSONFileStorage_Add(f, t, loadFails, saveFails) ==
    LET l == JSONFileStorage_Load(f, loadFails) IN
    IF l.err # "nil" THEN [err |-> "io", file |-> f]
    ELSE IF Validate(t) # "nil" THEN [err |-> "invalid", file |-> f]
    ELSE IF IndexOf(l.tasks, t.ID) # 0 THEN [err |-> "duplicate", file |-> f]
    ELSE JSONFileStorage_Save(f, Append(l.tasks, t), saveFails)

JSONFileStorage_Update(f, id, t, loadFails, saveFails) ==
    LET l == JSONFileStorage_Load(f, loadFails)
        i == IndexOf(l.tasks, id)
    IN
    IF l.err # "nil" THEN [err |-> "io", file |-> f]
    ELSE IF Validate(t) # "nil" THEN [err |-> "invalid", file |-> f]
    ELSE IF i = 0 THEN [err |-> "notfound", file |-> f]
    ELSE JSONFileStorage_Save(f,
            [l.tasks EXCEPT ![i] = [t EXCEPT !.CreatedAt = l.tasks[i].CreatedAt, !.ID = id]],
            saveFails)

JSONFileStorage_Delete(f, id, loadFails, saveFails) ==
    LET l == JSONFileStorage_Load(f, loadFails)
        i == IndexOf(l.tasks, id)
    IN
    IF l.err # "nil" THEN [err |-> "io", file |-> f]
    ELSE IF i = 0 THEN [err |-> "notfound", file |-> f]
    ELSE JSONFileStorage_Save(f, RemoveAt(l.tasks, i), saveFails)

JSONFileStorage_GetByID(f, id, loadFails) ==
    LET l == JSONFileStorage_Load(f, loadFails)
        i == IndexOf(l.tasks, id)
    IN
    IF l.err # "nil" THEN [err |-> "io", val |-> << >>]
    ELSE IF i = 0 THEN [err |-> "notfound", val |-> << >>]
    ELSE [err |-> "nil", val |-> <<l.tasks[i]>>]

\* ---- ConcurrentStorage --------------------------------------------------
VARIABLES
    file,             \* content of the underlying store's file
    autoSaveEnabled,  \* cs.autoSaveEnabled
    autoSaveTicker,   \* cs.autoSaveTicker: "nil", "running" or "stopped"
    autoSaveStop,     \* cs.autoSaveStop: "open" or "closed"
    workers,          \* number of live autoSaveWorker goroutines
    unsavedTasks,     \* cs.unsavedTasks
    panicked,         \* the process died of a panic
    lastOp            \* the call that returned last: arguments, result and
                      \* the calls it made on the underlying store

vars == <<file, autoSaveEnabled, autoSaveTicker, autoSaveStop,
          workers, unsavedTasks, panicked, lastOp>>

\* lastOp: op, its id and task arguments, the error it returned, the value it
\* returned (for saveUnsavedTasks, the collection it handed to Save), the
\* calls it made on cs.storage with their errors, and cs.autoSaveEnabled at
\* its entry
Op(op, id, t, err, val, calls, errs) ==
    [op |-> op, id |-> id, t |-> t, err |-> err, val |-> val,
     calls |-> calls, errs |-> errs, was |-> autoSaveEnabled]

\* NewConcurrentStorage over a store whose file does not exist yet
Init ==
    /\ file = << >>
    /\ autoSaveEnabled = FALSE
    /\ autoSaveTicker = "nil"
    /\ autoSaveStop = "open"
    /\ workers = 0
    /\ unsavedTasks = << >>
    /\ panicked = FALSE
    /\ lastOp = [op |-> "NewConcurrentStorage", id |-> "", t |-> NoTask,
                 err |-> "nil", val |-> << >>, calls |-> << >>, errs |-> << >>,
                 was |-> FALSE]

\* mergeTasks with the two overwrite loops in the wrong order: on a shared ID
\* the current record wins
MergeMap_CurrentWins(current, unsaved) ==
    [id \in IdsOf(current) \cup IdsOf(unsaved) |->
        IF id \in IdsOf(current) THEN current[LastIndexOf(current, id)]
        ELSE unsaved[LastIndexOf(unsaved, id)]]

\* the map mergeTasks builds: current records by ID, then every unsaved record
\* written over them (a later element of a slice overwrites an earlier one)
MergeMap(current, unsaved) ==
    [id \in IdsOf(current) \cup IdsOf(unsaved) |->
        IF id \in IdsOf(unsaved) THEN unsaved[LastIndexOf(unsaved, id)]
        ELSE current[LastIndexOf(current, id)]]

\* mergeTasks without the map: the unsaved records appended to the current ones
mergeTasks_Concat(current, unsaved) == {current \o unsaved}

\* mergeTasks: the map's values in the order the map iteration yields them,
\* which Go leaves unspecified: the set of possible results
mergeTasks(current, unsaved) ==
    LET m == MergeMap(current, unsaved) IN Orderings({m[id] : id \in DOMAIN m})

\* QueueTaskForSave without the search loop: always appends
QueueTaskForSave_NoReplace(unsaved, enabled, t) ==
    IF ~enabled THEN unsaved ELSE Append(unsaved, t)

\* QueueTaskForSave(t): the new value of cs.unsavedTasks
QueueTaskForSave(unsaved, enabled, t) ==
    IF ~enabled THEN unsaved
    ELSE IF IndexOf(unsaved, t.ID) # 0
         THEN [unsaved EXCEPT ![IndexOf(unsaved, t.ID)] = t]
         ELSE Append(unsaved, t)

\* EnableAutoSave without the `if cs.autoSaveEnabled { return }` guard
EnableAutoSave_NoGuard ==
    /\ ~panicked
    /\ lastOp' = Op("EnableAutoSave", "", NoTask, "nil", << >>, << >>, << >>)
    /\ autoSaveEnabled' = TRUE
    /\ autoSaveTicker' = "running"
    /\ workers' = workers + 1
    /\ UNCHANGED <<file, autoSaveStop, unsavedTasks, panicked>>

EnableAutoSave ==
    /\ ~panicked
    /\ lastOp' = Op("EnableAutoSave", "", NoTask, "nil", << >>, << >>, << >>)
    /\ IF autoSaveEnabled
       THEN UNCHANGED <<autoSaveEnabled, autoSaveTicker, workers>>
       ELSE /\ autoSaveEnabled' = TRUE
            /\ autoSaveTicker' = "running"
            /\ workers' = workers + 1
    /\ UNCHANGED <<file, autoSaveStop, unsavedTasks, panicked>>

\* close(cs.autoSaveStop) panics when the channel is already closed
DisableAutoSave ==
    /\ ~panicked
    /\ IF ~autoSaveEnabled
       THEN /\ lastOp' = Op("DisableAutoSave", "", NoTask, "nil", << >>, << >>, << >>)
            /\ UNCHANGED <<autoSaveEnabled, autoSaveTicker, autoSaveStop, panicked>>
       ELSE /\ autoSaveEnabled' = FALSE
            /\ autoSaveTicker' = "stopped"
            /\ IF autoSaveStop = "closed"
               THEN /\ panicked' = TRUE
                    /\ lastOp' = Op("DisableAutoSave", "", NoTask, "panic", << >>, << >>, << >>)
                    /\ UNCHANGED autoSaveStop
               ELSE /\ autoSaveStop' = "closed"
                    /\ lastOp' = Op("DisableAutoSave", "", NoTask, "nil", << >>, << >>, << >>)
                    /\ UNCHANGED panicked
    /\ UNCHANGED <<file, workers, unsavedTasks>>

\* saveUnsavedTasks whose fallback keeps the buffer when its Save fails, as
\* the merge branch does
saveUnsavedTasks_KeepOnFailure(loadFails, saveFails) ==
    LET l == JSONFileStorage_Load(file, loadFails) IN
    IF Len(unsavedTasks) = 0
    THEN /\ lastOp' = Op("saveUnsavedTasks", "", NoTask, "nil", << >>, << >>, << >>)
         /\ UNCHANGED <<file, unsavedTasks>>
    ELSE IF l.err # "nil"
    THEN LET s == JSONFileStorage_Save(file, unsavedTasks, saveFails) IN
         /\ file' = s.file
         /\ unsavedTasks' = IF s.err = "nil" THEN << >> ELSE unsavedTasks
         /\ lastOp' = Op("saveUnsavedTasks", "", NoTask, "nil", unsavedTasks,
                         <<"Load", "Save">>, <<l.err, s.err>>)
    ELSE \E mergedTasks \in mergeTasks(l.tasks, unsavedTasks) :
         LET s == JSONFileStorage_Save(file, mergedTasks, saveFails) IN
         /\ file' = s.file
         /\ unsavedTasks' = IF s.err = "nil" THEN << >> ELSE unsavedTasks
         /\ lastOp' = Op("saveUnsavedTasks", "", NoTask, "nil", mergedTasks,
                         <<"Load", "Save">>, <<l.err, s.err>>)

\* saveUnsavedTasks without the `len(cs.unsavedTasks) == 0` return
saveUnsavedTasks_NoEmptyCheck(loadFails, saveFails) ==
    LET l == JSONFileStorage_Load(file, loadFails) IN
    IF l.err # "nil"
    THEN LET s == JSONFileStorage_Save(file, unsavedTasks, saveFails) IN
         /\ file' = s.file
         /\ unsavedTasks' = << >>
         /\ lastOp' = Op("saveUnsavedTasks", "", NoTask, "nil", unsavedTasks,
                         <<"Load", "Save">>, <<l.err, s.err>>)
    ELSE \E mergedTasks \in mergeTasks(l.tasks, unsavedTasks) :
         LET s == JSONFileStorage_Save(file, mergedTasks, saveFails) IN
         /\ file' = s.file
         /\ unsavedTasks' = IF s.err = "nil" THEN << >> ELSE unsavedTasks
         /\ lastOp' = Op("saveUnsavedTasks", "", NoTask, "nil", mergedTasks,
                         <<"Load", "Save">>, <<l.err, s.err>>)

\* saveUnsavedTasks, with the outcomes of the underlying Load and Save
saveUnsavedTasks(loadFails, saveFails) ==
    LET l == JSONFileStorage_Load(file, loadFails) IN
    IF Len(unsavedTasks) = 0
    THEN /\ lastOp' = Op("saveUnsavedTasks", "", NoTask, "nil", << >>, << >>, << >>)
         /\ UNCHANGED <<file, unsavedTasks>>
    ELSE IF l.err # "nil"
    THEN LET s == JSONFileStorage_Save(file, unsavedTasks, saveFails) IN
         /\ file' = s.file
         /\ unsavedTasks' = << >>
         /\ lastOp' = Op("saveUnsavedTasks", "", NoTask, "nil", unsavedTasks,
                         <<"Load", "Save">>, <<l.err, s.err>>)
    ELSE \E mergedTasks \in mergeTasks(l.tasks, unsavedTasks) :
         LET s == JSONFileStorage_Save(file, mergedTasks, saveFails) IN
         /\ file' = s.file
         /\ unsavedTasks' = IF s.err = "nil" THEN << >> ELSE unsavedTasks
         /\ lastOp' = Op("saveUnsavedTasks", "", NoTask, "nil", mergedTasks,
                         <<"Load", "Save">>, <<l.err, s.err>>)

\* autoSaveWorker: case <-cs.autoSaveTicker.C (the running ticker delivers a
\* tick and a worker receives it)
WorkerTick ==
    /\ ~panicked
    /\ workers > 0
    /\ autoSaveTicker = "running"
    /\ \E loadFails, saveFails \in BOOLEAN : saveUnsavedTasks(loadFails, saveFails)
    /\ UNCHANGED <<autoSaveEnabled, autoSaveTicker, autoSaveStop, workers, panicked>>

\* autoSaveWorker: case <-cs.autoSaveStop (final save, then the worker returns)
WorkerStop ==
    /\ ~panicked
    /\ workers > 0
    /\ autoSaveStop = "closed"
    /\ workers' = workers - 1
    /\ \E loadFails, saveFails \in BOOLEAN : saveUnsavedTasks(loadFails, saveFails)
    /\ UNCHANGED <<autoSaveEnabled, autoSaveTicker, autoSaveStop, panicked>>

\* ConcurrentStorage.Load without the `len(cs.unsavedTasks) > 0` check: the
\* loaded collection always goes through mergeTasks
LoadResults_AlwaysMerge(f, unsaved, loadFails) ==
    LET l == JSONFileStorage_Load(f, loadFails) IN
    IF l.err # "nil" THEN {[err |-> l.err, val |-> << >>]}
    ELSE {[err |-> "nil", val |-> m] : m \in mergeTasks(l.tasks, unsaved)}

\* ConcurrentStorage.Load: the result, given the outcome of the underlying Load
LoadResults(f, unsaved, loadFails) ==
    LET l == JSONFileStorage_Load(f, loadFails) IN
    IF l.err # "nil" THEN {[err |-> l.err, val |-> << >>]}
    ELSE IF Len(unsaved) > 0
         THEN {[err |-> "nil", val |-> m] : m \in mergeTasks(l.tasks, unsaved)}
         ELSE {[err |-> "nil", val |-> l.tasks]}

Load ==
    /\ ~panicked
    /\ \E loadFails \in BOOLEAN : \E r \in LoadResults(file, unsavedTasks, loadFails) :
        lastOp' = Op("Load", "", NoTask, r.err, r.val, <<"Load">>, <<r.err>>)
    /\ UNCHANGED <<file, autoSaveEnabled, autoSaveTicker, autoSaveStop,
                   workers, unsavedTasks, panicked>>

Save ==
    /\ ~panicked
    /\ \E tasks \in Collections : \E saveFails \in BOOLEAN :
        LET s == JSONFileStorage_Save(file, tasks, saveFails) IN
        /\ unsavedTasks' = << >>
        /\ file' = s.file
        /\ lastOp' = Op("Save", "", NoTask, s.err, << >>, <<"Save">>, <<s.err>>)
    /\ UNCHANGED <<autoSaveEnabled, autoSaveTicker, autoSaveStop,
                   workers, panicked>>

\* Add that queues the task and also falls through to cs.storage.Add
Add_WriteThrough ==
    /\ ~panicked
    /\ \E t \in Tasks : \E loadFails, saveFails \in BOOLEAN :
        LET r == JSONFileStorage_Add(file, t, loadFails, saveFails) IN
        /\ unsavedTasks' = QueueTaskForSave(unsavedTasks, autoSaveEnabled, t)
        /\ file' = r.file
        /\ lastOp' = Op("Add", "", t, r.err, << >>, <<"Add">>, <<r.err>>)
    /\ UNCHANGED <<autoSaveEnabled, autoSaveTicker, autoSaveStop, workers, panicked>>

Add ==
    /\ ~panicked
    /\ \E t \in Tasks :
        IF autoSaveEnabled
        THEN /\ unsavedTasks' = QueueTaskForSave(unsavedTasks, autoSaveEnabled, t)
             /\ lastOp' = Op("Add", "", t, "nil", << >>, << >>, << >>)
             /\ UNCHANGED file
        ELSE \E loadFails, saveFails \in BOOLEAN :
             LET r == JSONFileStorage_Add(file, t, loadFails, saveFails) IN
             /\ file' = r.file
             /\ lastOp' = Op("Add", "", t, r.err, << >>, <<"Add">>, <<r.err>>)
             /\ UNCHANGED unsavedTasks
    /\ UNCHANGED <<autoSaveEnabled, autoSaveTicker, autoSaveStop,
                   workers, panicked>>

Update ==
    /\ ~panicked
    /\ \E id \in IDs : \E t \in Tasks :
        IF autoSaveEnabled
        THEN /\ unsavedTasks' = QueueTaskForSave(unsavedTasks, autoSaveEnabled, t)
             /\ lastOp' = Op("Update", id, t, "nil", << >>, << >>, << >>)
             /\ UNCHANGED file
        ELSE \E loadFails, saveFails \in BOOLEAN :
             LET r == JSONFileStorage_Update(file, id, t, loadFails, saveFails) IN
             /\ file' = r.file
             /\ lastOp' = Op("Update", id, t, r.err, << >>, <<"Update">>, <<r.err>>)
             /\ UNCHANGED unsavedTasks
    /\ UNCHANGED <<autoSaveEnabled, autoSaveTicker, autoSaveStop,
                   workers, panicked>>

\* Delete without the purge loop
PurgeUnsaved_Keep(unsaved, id) == unsaved

\* the purge loop of Delete: drop the first unsaved record with the ID
PurgeUnsaved(unsaved, id) ==
    IF IndexOf(unsaved, id) # 0 THEN RemoveAt(unsaved, IndexOf(unsaved, id)) ELSE unsaved

Delete ==
    /\ ~panicked
    /\ \E id \in IDs : \E loadFails, saveFails \in BOOLEAN :
        LET r == JSONFileStorage_Delete(file, id, loadFails, saveFails) IN
        /\ unsavedTasks' = IF autoSaveEnabled THEN PurgeUnsaved(unsavedTasks, id)
                           ELSE unsavedTasks
        /\ file' = r.file
        /\ lastOp' = Op("Delete", id, NoTask, r.err, << >>, <<"Delete">>, <<r.err>>)
    /\ UNCHANGED <<autoSaveEnabled, autoSaveTicker, autoSaveStop,
                   workers, panicked>>

\* ConcurrentStorage.GetByID: unsaved records first, then the underlying store
GetByIDResult(f, unsaved, id, loadFails) ==
    IF IndexOf(unsaved, id) # 0
    THEN [err |-> "nil", val |-> <<unsaved[IndexOf(unsaved, id)]>>, calls |-> << >>]
    ELSE LET r == JSONFileStorage_GetByID(f, id, loadFails) IN
         [err |-> r.err, val |-> r.val, calls |-> <<"GetByID">>]

GetByID ==
    /\ ~panicked
    /\ \E id \in IDs : \E loadFails \in BOOLEAN :
        LET r == GetByIDResult(file, unsavedTasks, id, loadFails) IN
        lastOp' = Op("GetByID", id, NoTask, r.err, r.val, r.calls,
                     IF r.calls = << >> THEN << >> ELSE <<r.err>>)
    /\ UNCHANGED <<file, autoSaveEnabled, autoSaveTicker, autoSaveStop,
                   workers, unsavedTasks, panicked>>

\* ---- state of the other components ---------------------------------------
VARIABLES
    heap,        \* the task.Task objects callers own, by pointer
    memTasks,    \* InMemoryStorage.tasks: a slice of pointers (0 is nil)
    formats,     \* ConcurrentExport: the formats argument
    ctxDone,     \* ConcurrentExport: the ctx argument is already cancelled
    exPc,        \* ConcurrentExport: where the caller stands
    exTasks,     \* ConcurrentExport: tasks, the slice Load returned
    loadCalls,   \* ConcurrentExport: calls of em.storage.Load made so far
    gor,         \* ConcurrentExport: per format, its goroutine's position and err
    results,     \* ConcurrentExport: content of the results channel
    recvd,       \* ConcurrentExport: i, the results received so far
    errors,      \* ConcurrentExport: errors, one entry per failed format
    files,       \* the export files on disk, by file name
    exRet,       \* ConcurrentExport: the error returned
    store,       \* the store the two callers below share: "json" or "mem"
    fstat,       \* JSONFileStorage: the file is "absent", "empty" or "json"
    tmp,         \* JSONFileStorage: the file <path>.tmp
    mu,          \* the store's mutex: w, a writer holds it; r, the readers
    wr,          \* the caller that runs one Save or Add on the store
    rd,          \* the caller that runs Load on the store
    touched,     \* a caller has changed an object it shares with the store
    adders,      \* the goroutines that call JSONFileStorage.Add concurrently
    fl,          \* saveUnsavedTasks in the worker: where it stands, what it loaded
    fg,          \* the wrapper method that holds cs.mutex: where it stands
    gone,        \* the IDs deleted through the wrapper and not stored again since
    lk,          \* who holds cs.mutex, cs.unsavedMutex and the store's mutex
    gr,          \* the goroutines that use the wrapper's locks: what each has left to do
    unsavedRefs  \* cs.unsavedTasks as the slice of pointers it is

memVars == <<heap, memTasks>>

exportVars == <<formats, ctxDone, exPc, exTasks, loadCalls, gor, results, recvd,
                errors, files, exRet>>

storeVars == <<store, fstat, tmp, mu, wr, rd, touched>>

raceVars == <<adders, fl, fg, gone, lk, gr, unsavedRefs>>

allVars == <<vars, memVars, exportVars, storeVars, raceVars>>

\* ---- InMemoryStorage and the objects behind the pointers ------------------
\* Callers hand *task.Task pointers to a store and get pointers back.  heap
\* maps the pointers callers own to the objects' current values.
MaxObjs == 2

Objs == 1..MaxObjs

\* the object p starts as: a valid task as NewTask builds it, the IDs taken
\* in turn, the objects created one after the other
InitTask(p) ==
    [ID |-> IF p % 2 = 1 THEN "a" ELSE "b", Title |-> MaxTitleLen,
     Description |-> MaxDescLen, CreatedAt |-> p, UpdatedAt |-> p, BadBytes |-> 0]

\* NewInMemoryStorage, then the callers' objects added in pointer order
MemInit ==
    /\ heap = [p \in Objs |-> InitTask(p)]
    /\ memTasks = [p \in 1..Cardinality(IDs) |-> p]

\* the values behind a slice of pointers (NoTask behind a nil pointer)
Values(h, ptrs) ==
    [j \in 1..Len(ptrs) |-> IF ptrs[j] = 0 THEN NoTask ELSE h[ptrs[j]]]

\* InMemoryStorage.Load: a new slice holding the same pointers
InMemoryStorage_Load(mt) == mt

\* InMemoryStorage.GetByID: the stored pointer itself
InMemoryStorage_GetByID(h, mt, id) ==
    IF \E j \in 1..Len(mt) : h[mt[j]].ID = id
    THEN [err |-> "nil",
          ptr |-> mt[CHOOSE j \in 1..Len(mt) :
                        h[mt[j]].ID = id /\ \A k \in 1..(j - 1) : h[mt[k]].ID # id]]
    ELSE [err |-> "notfound", ptr |-> 0]

\* Task.Update on an object: the fields are assigned before Validate runs
Task_Update(t, title) == [t EXCEPT !.Title = title, !.BadBytes = 0]

\* ---- ExportManager.ConcurrentExport ---------------------------------------
MaxFormats == 2

FormatNames == {"json", "csv", "bogus"}

FormatLists == UNION {[1..n -> FormatNames] : n \in 0..MaxFormats}

\* exportFormat's switch on strings.ToLower(format)
ExportKind(format) ==
    IF format \in {"json", "JSON"} THEN "json"
    ELSE IF format \in {"csv", "CSV"} THEN "csv"
    ELSE IF format \in {"markdown", "md", "MD"} THEN "markdown"
    ELSE "unsupported"

\* baseFilename + "." + format
FileName(format) == <<"base", format>>

NoFile == [kind |-> "none", recs |-> << >>]

\* what a renderer writes: the renderer's kind and the records it read
Rendered(kind, recs) == [kind |-> kind, recs |-> recs]

NoGor == [st |-> "none", err |-> "nil"]

NoRet == [err |-> "none", names |-> << >>]

ExportInit ==
    /\ formats = << >>
    /\ ctxDone = FALSE
    /\ exPc = "idle"
    /\ exTasks = << >>
    /\ loadCalls = 0
    /\ gor = << >>
    /\ results = << >>
    /\ recvd = 0
    /\ errors = << >>
    /\ files = [n \in {FileName(f) : f \in FormatNames} |-> NoFile]
    /\ exRet = NoRet

\* ---- the two callers of a store -------------------------------------------
NoTmp == [exists |-> FALSE, data |-> << >>]

\* <path>.tmp after a write that did not complete
Truncated == [exists |-> TRUE, data |-> <<[NoTask EXCEPT !.ID = "truncated"]>>]

\* data, before json.MarshalIndent has run
NoData == <<[NoTask EXCEPT !.ID = "nodata"]>>

NoWr == [pc |-> "idle", op |-> "none", id |-> "", arg |-> << >>, given |-> << >>,
         prev |-> << >>, prevv |-> << >>, loaded |-> << >>, data |-> NoData,
         err |-> "none"]

NoRd == [pc |-> "idle", res |-> << >>, err |-> "none", during |-> FALSE,
         after |-> FALSE, saw |-> "none", fault |-> FALSE]

\* no caller is inside the store
StoreIdle ==
    /\ store = "json"
    /\ fstat = "absent"
    /\ tmp = NoTmp
    /\ mu = [w |-> FALSE, r |-> 0]
    /\ wr = NoWr
    /\ rd = NoRd
    /\ touched = FALSE

NoFl == [pc |-> "idle", cur |-> << >>]

NoFg == [pc |-> "idle", op |-> "none", id |-> "", tasks |-> << >>, err |-> "none"]

\* the three mutexes, free: w is the goroutine holding the lock for writing,
\* r the goroutines holding it for reading (cs.unsavedMutex has no readers)
NoLocks ==
    [m \in {"cs", "un", "st"} |-> [w |-> "none", r |-> {}]]

\* the callers of the wrapper and the autoSaveWorker goroutines it may start
Callers == {"c1", "c2"}

WorkerIds == {"w1", "w2"}

\* a goroutine: the method it runs, the lock operations it has left, and for
\* a worker whether it returns after them
NoGoroutine == [op |-> "none", prog |-> << >>, last |-> FALSE]

NoGoroutines == [g \in Callers \cup WorkerIds |-> NoGoroutine]

\* no concurrent Adds, no flush and no wrapper method under way
RaceIdle ==
    /\ adders = << >>
    /\ fl = NoFl
    /\ fg = NoFg
    /\ gone = {}
    /\ lk = NoLocks
    /\ gr = NoGoroutines
    /\ unsavedRefs = << >>

\* ---- the wrapper on its own -----------------------------------------------
Next ==
    \/ EnableAutoSave /\ UNCHANGED <<memVars, exportVars, storeVars, raceVars>>
    \/ DisableAutoSave /\ UNCHANGED <<memVars, exportVars, storeVars, raceVars>>
    \/ WorkerTick /\ UNCHANGED <<memVars, exportVars, storeVars, raceVars>>
    \/ WorkerStop /\ UNCHANGED <<memVars, exportVars, storeVars, raceVars>>
    \/ Load /\ UNCHANGED <<memVars, exportVars, storeVars, raceVars>>
    \/ Save /\ UNCHANGED <<memVars, exportVars, storeVars, raceVars>>
    \/ Add /\ UNCHANGED <<memVars, exportVars, storeVars, raceVars>>
    \/ Update /\ UNCHANGED <<memVars, exportVars, storeVars, raceVars>>
    \/ Delete /\ UNCHANGED <<memVars, exportVars, storeVars, raceVars>>
    \/ GetByID /\ UNCHANGED <<memVars, exportVars, storeVars, raceVars>>

\* the wrapper over an empty file; the other components at rest
InitAll == Init /\ MemInit /\ ExportInit /\ StoreIdle /\ RaceIdle

Spec == InitAll /\ [][Next]_allVars

\* ---- the wrapper over a file system that works, with a fair worker -------
\* autoSaveWorker's tick case when the underlying Load and Save succeed
WorkerTick_OK ==
    /\ ~panicked
    /\ workers > 0
    /\ autoSaveTicker = "running"
    /\ saveUnsavedTasks(FALSE, FALSE)
    /\ UNCHANGED <<autoSaveEnabled, autoSaveTicker, autoSaveStop, workers, panicked>>

\* autoSaveWorker's stop case when the underlying Load and Save succeed
WorkerStop_OK ==
    /\ ~panicked
    /\ workers > 0
    /\ autoSaveStop = "closed"
    /\ workers' = workers - 1
    /\ saveUnsavedTasks(FALSE, FALSE)
    /\ UNCHANGED <<autoSaveEnabled, autoSaveTicker, autoSaveStop, panicked>>

LiveFrame == UNCHANGED <<memVars, exportVars, storeVars, raceVars>>

NextLive ==
    \/ EnableAutoSave /\ LiveFrame
    \/ DisableAutoSave /\ LiveFrame
    \/ Add /\ LiveFrame
    \/ Update /\ LiveFrame
    \/ WorkerTick_OK /\ LiveFrame
    \/ WorkerStop_OK /\ LiveFrame

\* A running ticker keeps delivering ticks and a live worker blocked in its
\* select receives them; a worker whose stop channel is closed takes that
\* case (select chooses among the ready cases at random).  Callers are under
\* no obligation to call anything.
LiveFairness ==
    /\ WF_allVars(WorkerTick_OK /\ LiveFrame)
    /\ WF_allVars(WorkerStop_OK /\ LiveFrame)

SpecLive == InitAll /\ [][NextLive]_allVars /\ LiveFairness

\* ---- properties ---------------------------------------------------------
\* what the wrapper's GetByID and Load return when the underlying Load works
GetOK(f, unsaved, id) == GetByIDResult(f, unsaved, id, FALSE)

LoadOK(f, unsaved) == LoadResults(f, unsaved, FALSE)

\* res holds exactly one record for every ID of cur or pend, and for an ID of
\* pend it is pend's record
IsOverlay(res, cur, pend) ==
    /\ DistinctIDs(res)
    /\ IdsOf(res) = IdsOf(cur) \cup IdsOf(pend)
    /\ \A i \in 1..Len(res) :
        IF res[i].ID \in IdsOf(pend)
        THEN \E j \in 1..Len(pend) : pend[j] = res[i]
        ELSE \E j \in 1..Len(cur) : cur[j] = res[i]

\* the step is a call of Add or Update made while auto-save is enabled
QueuingStep == lastOp'.op \in {"Add", "Update"} /\ autoSaveEnabled

\* C1: read-your-own-writes. While auto-save is enabled, right after Add or
\* Update queued t, GetByID(t.ID) returns t (not the stored record, not
\* not-found), and GetByID of every other pending ID still returns what it
\* returned before: so after any sequence of Add/Update calls with no flush
\* in between, GetByID(id) returns the record queued last for id.
C1_ReadYourOwnWrites ==
    [][QueuingStep =>
        /\ \A loadFails \in BOOLEAN :
            LET r == GetByIDResult(file', unsavedTasks', lastOp'.t.ID, loadFails) IN
            r.err = "nil" /\ r.val = <<lastOp'.t>>
        /\ \A id \in IdsOf(unsavedTasks) \ {lastOp'.t.ID} : \A loadFails \in BOOLEAN :
            GetByIDResult(file', unsavedTasks', id, loadFails)
                = GetByIDResult(file, unsavedTasks, id, loadFails)
    ]_vars

\* a record was queued over a different stored record with the same ID
C1_Witness ==
    /\ lastOp.op \in {"Add", "Update"}
    /\ autoSaveEnabled
    /\ IndexOf(file, lastOp.t.ID) # 0
    /\ file[IndexOf(file, lastOp.t.ID)] # lastOp.t
    /\ Len(unsavedTasks) = 2

\* C2: when DisableAutoSave returns from the Enabled state, the pending
\* buffer is empty and every record that was pending is in the underlying
\* store.
C2_DisableFlushesSynchronously ==
    (lastOp.op = "DisableAutoSave" /\ lastOp.was /\ lastOp.err = "nil")
        => unsavedTasks = << >>

\* C3: while auto-save is enabled, Add and Update return success, make no call
\* on the underlying store and leave its collection unchanged; afterwards the
\* pending buffer holds the given record under its ID, inserted if the ID was
\* not pending and replaced if it was, the other pending records unchanged.
C3_QueueOnly ==
    [][QueuingStep =>
        LET t == lastOp'.t
            i == IndexOf(unsavedTasks, t.ID)
        IN
        /\ lastOp'.err = "nil"
        /\ lastOp'.calls = << >>
        /\ file' = file
        /\ IF i = 0 THEN unsavedTasks' = unsavedTasks \o <<t>>
           ELSE /\ Len(unsavedTasks') = Len(unsavedTasks)
                /\ \A j \in 1..Len(unsavedTasks) :
                    unsavedTasks'[j] = IF j = i THEN t ELSE unsavedTasks[j]
        /\ Cardinality({j \in 1..Len(unsavedTasks') : unsavedTasks'[j].ID = t.ID}) = 1
    ]_vars

\* the queued record sits before another pending record: it replaced an entry
C3_Witness ==
    /\ lastOp.op \in {"Add", "Update"}
    /\ autoSaveEnabled
    /\ lastOp.calls = << >>
    /\ Len(unsavedTasks) = 2
    /\ unsavedTasks[1] = lastOp.t
    /\ file # << >>

FlushStep ==
    /\ lastOp'.op = "saveUnsavedTasks"
    /\ unsavedTasks # << >>
    /\ lastOp'.errs # << >>
    /\ lastOp'.errs[1] = "nil"

\* C5: a flush with a non-empty pending buffer and a successful underlying
\* Load calls Save with the overlay of the loaded collection and the pending
\* records; if the Save succeeds that overlay is persisted and the buffer is
\* empty, if it fails the buffer (and the file) are unchanged.
C5_FlushMerges ==
    [][FlushStep =>
        /\ lastOp'.calls = <<"Load", "Save">>
        /\ IsOverlay(lastOp'.val, file, unsavedTasks)
        /\ IF lastOp'.errs[2] = "nil"
           THEN file' = lastOp'.val /\ unsavedTasks' = << >>
           ELSE file' = file /\ unsavedTasks' = unsavedTasks
    ]_vars

\* a flush whose Save failed, with an ID stored and pending under different
\* records
C5_Witness ==
    /\ lastOp.op = "saveUnsavedTasks"
    /\ lastOp.errs = <<"nil", "io">>
    /\ \E i \in 1..Len(file) : \E j \in 1..Len(unsavedTasks) :
        file[i].ID = unsavedTasks[j].ID /\ file[i] # unsavedTasks[j]
    /\ Len(lastOp.val) = 2

C7_DeleteKnowsPending ==
    [][(lastOp'.op = "Delete" /\ autoSaveEnabled /\ lastOp'.err = "notfound")
        => lastOp'.id \notin IdsOf(file) \cup IdsOf(unsavedTasks)
    ]_vars

\* C8: while auto-save is enabled, Update(id, t) with a valid t, t.ID # id and
\* a known id makes t visible under id, with ID = id and the previous record's
\* CreatedAt, and changes nothing under t.ID.
C8_UpdateForcesID ==
    [][(lastOp'.op = "Update" /\ autoSaveEnabled /\ lastOp'.t.ID # lastOp'.id
            /\ Validate(lastOp'.t) = "nil"
            /\ GetOK(file, unsavedTasks, lastOp'.id).err = "nil")
        => LET id == lastOp'.id
               t == lastOp'.t
               old == GetOK(file, unsavedTasks, id).val[1]
           IN
           /\ GetOK(file', unsavedTasks', id).val
                = <<[t EXCEPT !.ID = id, !.CreatedAt = old.CreatedAt]>>
           /\ GetOK(file', unsavedTasks', t.ID) = GetOK(file, unsavedTasks, t.ID)
    ]_vars

\* C9: no record that fails Validate is ever in the persisted collection.
C9_PersistedValid ==
    \A i \in 1..Len(file) : Validate(file[i]) = "nil"

\* C10: EnableAutoSave while enabled, and DisableAutoSave while disabled,
\* change nothing: no ticker, worker, channel, buffer or file is touched.
C10_IdempotentSwitch ==
    [][((lastOp'.op = "EnableAutoSave" /\ autoSaveEnabled)
            \/ (lastOp'.op = "DisableAutoSave" /\ ~autoSaveEnabled))
        => /\ lastOp'.err = "nil"
           /\ UNCHANGED <<file, autoSaveEnabled, autoSaveTicker, autoSaveStop,
                          workers, unsavedTasks, panicked>>
    ]_vars

\* EnableAutoSave returned while auto-save was already enabled, with records
\* pending
C10_Witness ==
    /\ lastOp.op = "EnableAutoSave"
    /\ lastOp.was
    /\ unsavedTasks # << >>
    /\ workers = 1

\* the step is a flush that follows a write the wrapper made, with success,
\* on the underlying store while auto-save was disabled
FlushAfterDisabledWrite ==
    /\ lastOp'.op = "saveUnsavedTasks"
    /\ ~autoSaveEnabled
    /\ lastOp.op \in {"Add", "Update", "Delete", "Save"}
    /\ ~lastOp.was
    /\ lastOp.err = "nil"

\* C31: a flush never undoes a write made through the wrapper after
\* DisableAutoSave returned: after the flush the store holds under the
\* written ID what the write left there (nothing, after a Delete), and after
\* a Save the whole collection it left.
C31_DisabledWriteSticks ==
    [][FlushAfterDisabledWrite =>
        IF lastOp.op = "Save" THEN file' = file
        ELSE LET id == IF lastOp.op = "Add" THEN lastOp.t.ID ELSE lastOp.id IN
             JSONFileStorage_GetByID(file', id, FALSE)
                = JSONFileStorage_GetByID(file, id, FALSE)
    ]_vars

\* C32: the Disabled -> Enabled -> Disabled cycle can be repeated: no call
\* of EnableAutoSave or DisableAutoSave panics, and while auto-save is enabled
\* a background flusher is running.
C32_CycleRepeats ==
    /\ ~panicked
    /\ autoSaveEnabled => workers >= 1

\* C33: while auto-save is enabled, ticks keep occurring and the underlying
\* Load and Save succeed, records queued by Add or Update do not stay pending
\* for ever: the buffer is flushed, unless DisableAutoSave is called first.
C33_QueuedIsFlushed ==
    (autoSaveEnabled /\ unsavedTasks # << >>)
        ~> (unsavedTasks = << >> \/ ~autoSaveEnabled)

\* the step is a flush that found pending records and could not load
DegradedFlushStep ==
    /\ lastOp'.op = "saveUnsavedTasks"
    /\ unsavedTasks # << >>
    /\ lastOp'.errs # << >>
    /\ lastOp'.errs[1] # "nil"

\* C35: a flush with a non-empty pending buffer whose underlying Load fails
\* calls Save with exactly the pending records, and the buffer is empty
\* afterwards whether that Save succeeded or failed.
C35_DegradedFlush ==
    [][DegradedFlushStep =>
        /\ lastOp'.calls = <<"Load", "Save">>
        /\ lastOp'.val = unsavedTasks
        /\ unsavedTasks' = << >>
    ]_vars

\* a flush whose Load and Save both failed, with two records pending
C35_Witness ==
    /\ lastOp.op = "saveUnsavedTasks"
    /\ lastOp.errs = <<"io", "io">>
    /\ Len(lastOp.val) = 2
    /\ unsavedTasks = << >>

\* C37: a flush that finds the pending buffer empty calls neither Load nor
\* Save on the underlying store and changes neither the store, the buffer nor
\* the auto-save switch.
C37_EmptyFlushNoOp ==
    [][(lastOp'.op = "saveUnsavedTasks" /\ unsavedTasks = << >>) =>
        /\ lastOp'.calls = << >>
        /\ UNCHANGED <<file, unsavedTasks, autoSaveEnabled, autoSaveTicker,
                       autoSaveStop, panicked>>
    ]_vars

\* a flush ran with nothing pending over a store that holds records
C37_Witness ==
    /\ lastOp.op = "saveUnsavedTasks"
    /\ lastOp.calls = << >>
    /\ unsavedTasks = << >>
    /\ file # << >>

\* the step is a call of a Storage method on a wrapper whose auto-save was
\* never enabled (EnableAutoSave is the only place that sets the ticker)
NeverEnabledStep ==
    /\ autoSaveTicker' = "nil"
    /\ lastOp'.op \in {"Load", "Save", "Add", "Update", "Delete", "GetByID"}

\* the call that lastOp' records returned, and left in the file, what the
\* same call on the underlying store returns and leaves for some outcome of
\* the file system calls
SameAsStore ==
    \E loadFails, saveFails \in BOOLEAN :
        LET o == lastOp' IN
        CASE o.op = "Load" ->
                LET r == JSONFileStorage_Load(file, loadFails) IN
                o.err = r.err /\ o.val = r.tasks /\ file' = file
          [] o.op = "GetByID" ->
                LET r == JSONFileStorage_GetByID(file, o.id, loadFails) IN
                o.err = r.err /\ o.val = r.val /\ file' = file
          [] o.op = "Save" ->
                \E tasks \in Collections :
                    LET r == JSONFileStorage_Save(file, tasks, saveFails) IN
                    o.err = r.err /\ file' = r.file
          [] o.op = "Add" ->
                LET r == JSONFileStorage_Add(file, o.t, loadFails, saveFails) IN
                o.err = r.err /\ file' = r.file
          [] o.op = "Update" ->
                LET r == JSONFileStorage_Update(file, o.id, o.t, loadFails, saveFails) IN
                o.err = r.err /\ file' = r.file
          [] o.op = "Delete" ->
                LET r == JSONFileStorage_Delete(file, o.id, loadFails, saveFails) IN
                o.err = r.err /\ file' = r.file

\* C40: on a wrapper whose auto-save was never enabled, every Load, Save, Add,
\* Update, Delete and GetByID makes the one matching call on the underlying
\* store, returns its result and error and leaves the collection as that call
\* leaves it; the pending buffer stays empty and QueueTaskForSave changes
\* nothing.
C40_NeverEnabledIsTransparent ==
    [][NeverEnabledStep =>
        /\ lastOp'.calls = <<lastOp'.op>>
        /\ SameAsStore
        /\ unsavedTasks = << >>
        /\ unsavedTasks' = << >>
        /\ \A t \in Tasks :
            QueueTaskForSave(unsavedTasks, autoSaveEnabled, t) = unsavedTasks
    ]_vars

\* a successful Load on a never enabled wrapper over two stored records
C40_Witness ==
    /\ autoSaveTicker = "nil"
    /\ lastOp.op = "Load"
    /\ lastOp.err = "nil"
    /\ Len(lastOp.val) = 2

\* ---- ExportManager.ConcurrentExport over an InMemoryStorage ---------------
\* The caller and the goroutines it starts take their steps one at a time,
\* interleaved with the steps of other users of the same store.

\* ConcurrentExport without the `len(formats) == 0` check
ConcurrentExport_Call_NoCheck ==
    /\ exPc = "idle"
    /\ \E fs \in FormatLists : \E cancelled \in BOOLEAN :
        /\ formats' = fs
        /\ ctxDone' = cancelled
        /\ exPc' = "load"
    /\ UNCHANGED <<exTasks, loadCalls, gor, results, recvd, errors, files, exRet>>
    /\ UNCHANGED <<vars, memVars, storeVars, raceVars>>

\* `if len(formats) == 0 { return ... }`
ConcurrentExport_Call ==
    /\ exPc = "idle"
    /\ \E fs \in FormatLists : \E cancelled \in BOOLEAN :
        /\ formats' = fs
        /\ ctxDone' = cancelled
        /\ IF Len(fs) = 0
           THEN exPc' = "returned" /\ exRet' = [err |-> "noformats", names |-> << >>]
           ELSE exPc' = "load" /\ UNCHANGED exRet
    /\ UNCHANGED <<exTasks, loadCalls, gor, results, recvd, errors, files>>
    /\ UNCHANGED <<vars, memVars, storeVars, raceVars>>

\* `tasks, err := em.storage.Load(ctx)`, then `results := make(chan ..., len(formats))`
ConcurrentExport_Load ==
    /\ exPc = "load"
    /\ loadCalls' = loadCalls + 1
    /\ \E loadFails \in BOOLEAN :
        IF loadFails
        THEN /\ exPc' = "returned"
             /\ exRet' = [err |-> "load", names |-> << >>]
             /\ UNCHANGED <<exTasks, gor>>
        ELSE /\ exPc' = "launch"
             /\ exTasks' = InMemoryStorage_Load(memTasks)
             /\ gor' = [i \in 1..Len(formats) |-> NoGor]
             /\ UNCHANGED exRet
    /\ UNCHANGED <<formats, ctxDone, results, recvd, errors, files>>
    /\ UNCHANGED <<vars, memVars, storeVars, raceVars>>

\* one iteration of `for _, format := range formats { go func(...) }`
ConcurrentExport_Launch ==
    /\ exPc = "launch"
    /\ LET k == Cardinality({i \in 1..Len(gor) : gor[i].st # "none"}) + 1 IN
        /\ gor' = [gor EXCEPT ![k].st = "started"]
        /\ exPc' = IF k = Len(formats) THEN "collect" ELSE "launch"
    /\ UNCHANGED <<formats, ctxDone, exTasks, loadCalls, results, recvd, errors,
                   files, exRet>>
    /\ UNCHANGED <<vars, memVars, storeVars, raceVars>>

\* exportFormat that creates the output file before looking at the format
exportFormat_CreateFirst(i, ioFails) ==
    LET kind == ExportKind(formats[i]) IN
    IF ioFails THEN [err |-> "io", files |-> files]
    ELSE IF kind = "unsupported"
    THEN [err |-> "unsupported",
          files |-> [files EXCEPT ![FileName(formats[i])] = Rendered(kind, << >>)]]
    ELSE [err |-> "nil",
          files |-> [files EXCEPT ![FileName(formats[i])] =
                        Rendered(kind, Values(heap, exTasks))]]

\* exportFormat in goroutine i: the error it returns and the files afterwards.
\* A supported renderer reads the records behind tasks and writes its file,
\* unless creating or writing the file fails.
exportFormat(i, ioFails) ==
    LET kind == ExportKind(formats[i]) IN
    IF kind = "unsupported" THEN [err |-> "unsupported", files |-> files]
    ELSE IF ioFails THEN [err |-> "io", files |-> files]
    ELSE [err |-> "nil",
          files |-> [files EXCEPT ![FileName(formats[i])] =
                        Rendered(kind, Values(heap, exTasks))]]

\* goroutine i: `err := em.exportFormat(tasks, fmt, filename)`
Goroutine_Export(i) ==
    /\ gor[i].st = "started"
    /\ \E ioFails \in BOOLEAN :
        LET r == exportFormat(i, ioFails) IN
        /\ files' = r.files
        /\ gor' = [gor EXCEPT ![i] = [st |-> "rendered", err |-> r.err]]
    /\ UNCHANGED <<formats, ctxDone, exPc, exTasks, loadCalls, results, recvd,
                   errors, exRet>>
    /\ UNCHANGED <<vars, memVars, storeVars, raceVars>>

\* the send on a results channel made with capacity 1
Goroutine_Send_CapacityOne(i) ==
    /\ gor[i].st = "rendered"
    /\ Len(results) < 1
    /\ results' = Append(results, [format |-> formats[i], err |-> gor[i].err])
    /\ gor' = [gor EXCEPT ![i].st = "sent"]
    /\ UNCHANGED <<formats, ctxDone, exPc, exTasks, loadCalls, recvd, errors,
                   files, exRet>>
    /\ UNCHANGED <<vars, memVars, storeVars, raceVars>>

\* goroutine i: `results <- exportResult{...}`; the send blocks while the
\* channel holds len(formats) results
Goroutine_Send(i) ==
    /\ gor[i].st = "rendered"
    /\ Len(results) < Len(formats)
    /\ results' = Append(results, [format |-> formats[i], err |-> gor[i].err])
    /\ gor' = [gor EXCEPT ![i].st = "sent"]
    /\ UNCHANGED <<formats, ctxDone, exPc, exTasks, loadCalls, recvd, errors,
                   files, exRet>>
    /\ UNCHANGED <<vars, memVars, storeVars, raceVars>>

\* the collect loop keeping only the latest error
ConcurrentExport_Collect_KeepLast ==
    /\ exPc = "collect"
    /\ recvd < Len(formats)
    /\ results # << >>
    /\ results' = Tail(results)
    /\ recvd' = recvd + 1
    /\ errors' = IF Head(results).err # "nil"
                 THEN <<Head(results).format>> ELSE errors
    /\ UNCHANGED <<formats, ctxDone, exPc, exTasks, loadCalls, gor, files, exRet>>
    /\ UNCHANGED <<vars, memVars, storeVars, raceVars>>

\* one iteration of the collect loop: `result := <-results`
ConcurrentExport_Collect ==
    /\ exPc = "collect"
    /\ recvd < Len(formats)
    /\ results # << >>
    /\ results' = Tail(results)
    /\ recvd' = recvd + 1
    /\ errors' = IF Head(results).err # "nil"
                 THEN Append(errors, Head(results).format) ELSE errors
    /\ UNCHANGED <<formats, ctxDone, exPc, exTasks, loadCalls, gor, files, exRet>>
    /\ UNCHANGED <<vars, memVars, storeVars, raceVars>>

\* a collect loop that returns at the first error
ConcurrentExport_Return_OnError ==
    /\ exPc = "collect"
    /\ (recvd >= Len(formats) \/ Len(errors) > 0)
    /\ exPc' = "returned"
    /\ exRet' = IF Len(errors) > 0 THEN [err |-> "export", names |-> errors]
                ELSE [err |-> "nil", names |-> << >>]
    /\ UNCHANGED <<formats, ctxDone, exTasks, loadCalls, gor, results, recvd,
                   errors, files>>
    /\ UNCHANGED <<vars, memVars, storeVars, raceVars>>

\* the loop is over: `if len(errors) > 0 { return ... }; return nil`
ConcurrentExport_Return ==
    /\ exPc = "collect"
    /\ recvd >= Len(formats)
    /\ exPc' = "returned"
    /\ exRet' = IF Len(errors) > 0 THEN [err |-> "export", names |-> errors]
                ELSE [err |-> "nil", names |-> << >>]
    /\ UNCHANGED <<formats, ctxDone, exTasks, loadCalls, gor, results, recvd,
                   errors, files>>
    /\ UNCHANGED <<vars, memVars, storeVars, raceVars>>

\* another goroutine: t, _ := store.GetByID(id); t.Update(title, ...)
Caller_Mutate ==
    /\ \E id \in IDs : \E title \in TitleLens :
        LET g == InMemoryStorage_GetByID(heap, memTasks, id) IN
        /\ g.err = "nil"
        /\ heap[g.ptr].Title # title
        /\ heap' = [heap EXCEPT ![g.ptr] = Task_Update(heap[g.ptr], title)]
    /\ UNCHANGED <<memTasks, vars, exportVars, storeVars, raceVars>>

NextExport ==
    \/ ConcurrentExport_Call
    \/ ConcurrentExport_Load
    \/ ConcurrentExport_Launch
    \/ \E i \in 1..Len(gor) : Goroutine_Export(i)
    \/ \E i \in 1..Len(gor) : Goroutine_Send(i)
    \/ ConcurrentExport_Collect
    \/ ConcurrentExport_Return
    \/ Caller_Mutate

SpecExport == InitAll /\ [][NextExport]_allVars

\* The Go scheduler runs every runnable goroutine: the caller of
\* ConcurrentExport and each goroutine it started take their next step once
\* it stays possible.  Nothing is assumed of the other users of the store.
ExportFairness ==
    /\ WF_allVars(ConcurrentExport_Load)
    /\ WF_allVars(ConcurrentExport_Launch)
    /\ \A i \in 1..MaxFormats : WF_allVars(i \in DOMAIN gor /\ Goroutine_Export(i))
    /\ \A i \in 1..MaxFormats : WF_allVars(i \in DOMAIN gor /\ Goroutine_Send(i))
    /\ WF_allVars(ConcurrentExport_Collect)
    /\ WF_allVars(ConcurrentExport_Return)

SpecExportFair == InitAll /\ [][NextExport]_allVars /\ ExportFairness

\* ---- properties of the export --------------------------------------------
\* ConcurrentExport has returned after launching its tasks
ExportDone == exPc = "returned" /\ exRet.err \in {"nil", "export"}

\* the formats whose task reported an error
FailedTasks == {i \in 1..Len(gor) : gor[i].err # "nil"}

\* C11: ConcurrentExport does not return before every launched task has
\* reported: at the return all N tasks have run and sent their result and N
\* results were received, whether a task failed or the context was cancelled.
C11_WaitsForAll ==
    ExportDone =>
        /\ Len(gor) = Len(formats)
        /\ \A i \in 1..Len(gor) : gor[i].st = "sent"
        /\ recvd = Len(formats)
        /\ results = << >>

\* an export under a cancelled context returned with one task failed and
\* another one's file written
C11_Witness ==
    /\ ExportDone
    /\ ctxDone
    /\ \E i, j \in 1..Len(gor) :
        /\ gor[i].err # "nil"
        /\ gor[j].err = "nil"
        /\ files[FileName(formats[j])] # NoFile

\* C39: ConcurrentExport terminates and leaves no goroutine behind: a
\* goroutine that has rendered can always send its result at once (the
\* channel is never full for it), never more goroutines are started than
\* formats were given, and a call that has begun returns; by then (C11) every
\* goroutine has sent and every result was received.
C39_TerminatesNoLeak ==
    /\ [](\A i \in DOMAIN gor :
            gor[i].st = "rendered" => ENABLED Goroutine_Send(i))
    /\ [](Len(gor) <= Len(formats) /\ Len(results) + recvd <= Len(formats))
    /\ (exPc \in {"load", "launch", "collect"}) ~> (exPc = "returned")

\* the second of two goroutines is about to send while the first one's result
\* is still in the channel
C39_Witness ==
    /\ Len(formats) = 2
    /\ Len(results) = 1
    /\ recvd = 0
    /\ \E i \in DOMAIN gor : gor[i].st = "rendered"

\* C12: given a non-empty format list and a successful Load, ConcurrentExport
\* returns an error exactly if some task reported one; the combined error
\* names every failed format, once per failed task.
C12_ErrorIffTaskFailed ==
    ExportDone =>
        /\ (exRet.err = "export") <=> (FailedTasks # {})
        /\ {exRet.names[k] : k \in 1..Len(exRet.names)} = {formats[i] : i \in FailedTasks}
        /\ Len(exRet.names) = Cardinality(FailedTasks)

\* two tasks for different formats failed and both are named
C12_Witness ==
    /\ ExportDone
    /\ Len(exRet.names) = 2
    /\ exRet.names[1] # exRet.names[2]

\* C13: an unsupported format fails only its own task: at the return every
\* supported format whose own writing did not fail has its file
\* <base>.<format>, written by its renderer from the loaded records; every
\* unsupported name is in the combined error and has no file.
C13_UnsupportedIsLocal ==
    ExportDone =>
        \A i \in 1..Len(formats) :
            LET f == files[FileName(formats[i])] IN
            IF ExportKind(formats[i]) = "unsupported"
            THEN /\ gor[i].err = "unsupported"
                 /\ \E k \in 1..Len(exRet.names) : exRet.names[k] = formats[i]
                 /\ f = NoFile
            ELSE /\ gor[i].err \in {"nil", "io"}
                 /\ gor[i].err = "nil" =>
                        /\ f.kind = ExportKind(formats[i])
                        /\ Len(f.recs) = Len(exTasks)
                        /\ \A j \in 1..Len(exTasks) : f.recs[j].ID = heap[exTasks[j]].ID

\* an export of a supported and an unsupported format returned, the supported
\* file written
C13_Witness ==
    /\ ExportDone
    /\ \E i, j \in 1..Len(formats) :
        /\ ExportKind(formats[i]) = "unsupported"
        /\ ExportKind(formats[j]) # "unsupported"
        /\ files[FileName(formats[j])] # NoFile
    /\ files[FileName("bogus")] = NoFile

\* C14: one export calls Load once and all the files it produces describe the
\* same records with the same field values, whatever runs concurrently.
C14_OneSnapshot ==
    /\ loadCalls <= 1
    /\ \A m, n \in DOMAIN files :
        (files[m] # NoFile /\ files[n] # NoFile) => files[m].recs = files[n].recs

\* C15: with an empty format list ConcurrentExport fails with the no-formats
\* error at once: no Load call, no task, no file.
C15_NoFormats ==
    /\ (exPc # "idle" /\ formats = << >>) => (exPc = "returned" /\ exRet.err = "noformats")
    /\ exRet.err = "noformats" =>
        /\ formats = << >>
        /\ loadCalls = 0
        /\ gor = << >>
        /\ results = << >>
        /\ \A n \in DOMAIN files : files[n] = NoFile

\* the call with no formats returned, under a cancelled context
C15_Witness ==
    /\ exRet.err = "noformats"
    /\ exPc = "returned"
    /\ ctxDone

\* C26: an operation called with an already cancelled context abandons its
\* work and returns a cancellation error: ConcurrentExport called with a
\* cancelled ctx returns the cancellation error and has written no file.
C26_RespectsCancellation ==
    (exPc = "returned" /\ ctxDone /\ formats # << >>) =>
        /\ exRet.err = "cancelled"
        /\ loadCalls = 0
        /\ \A n \in DOMAIN files : files[n] = NoFile

\* ==== JSONFileStorage and InMemoryStorage, step by step ===================
\* One caller (wr) runs a single Save or Add, a second one (rd) runs Load
\* again and again, and callers change the objects they hold pointers to.
\* store says which implementation the two share.  The JSON store's
\* collection is file, the in-memory store's is memTasks.

\* the object p as the caller built it: the first one is valid, rejected by
\* Validate, or a valid one-byte title that is not valid UTF-8
Variants == {"valid", "invalid", "badutf8"}

Variant(p, v) ==
    IF p # 1 \/ v = "valid" THEN InitTask(p)
    ELSE IF v = "invalid" THEN [InitTask(p) EXCEPT !.Title = 0]
    ELSE [InitTask(p) EXCEPT !.Title = 1, !.BadBytes = 1]

\* slices of pairwise different pointers
PtrSeqs ==
    UNION {{q \in [1..n -> Objs] : \A i, j \in 1..n : q[i] = q[j] => i = j} :
              n \in 0..MaxObjs}

\* the store after an earlier Save(ptrs0); an earlier failed Save may have
\* left a truncated <path>.tmp behind
StoreInit ==
    /\ autoSaveEnabled = FALSE
    /\ autoSaveTicker = "nil"
    /\ autoSaveStop = "open"
    /\ workers = 0
    /\ unsavedTasks = << >>
    /\ panicked = FALSE
    /\ lastOp = Op("NewConcurrentStorage", "", NoTask, "nil", << >>, << >>, << >>)
    /\ ExportInit
    /\ RaceIdle
    /\ store \in {"json", "mem"}
    /\ \E v \in Variants : heap = [p \in Objs |-> Variant(p, v)]
    /\ \E n \in 0..Cardinality(IDs) :
        LET ptrs0 == [j \in 1..n |-> j] IN
        /\ memTasks = IF store = "mem" THEN ptrs0 ELSE << >>
        /\ file = IF store = "json" THEN Marshal(Values(heap, ptrs0)) ELSE << >>
    /\ fstat \in IF store = "mem" THEN {"absent"}
                 ELSE IF file = << >> THEN {"absent", "empty", "json"}
                 ELSE {"json"}
    /\ tmp \in IF store = "json" THEN {NoTmp, Truncated} ELSE {NoTmp}
    /\ mu = [w |-> FALSE, r |-> 0]
    /\ wr = NoWr
    /\ rd = NoRd
    /\ touched = FALSE

\* the store's collection: decoded records (json) or pointers (mem)
Stored == IF store = "json" THEN file ELSE memTasks

\* the records of the store's collection
StoredValues == IF store = "json" THEN file ELSE Values(heap, memTasks)

\* mutex.Unlock / mutex.RUnlock as the deferred call of a returning method
Unlock(m) == [m EXCEPT !.w = FALSE]

RUnlock(m) == [m EXCEPT !.r = @ - 1]

\* JSONFileStorage.Load without the `len(data) == 0` return: json.Unmarshal
\* fails on empty input
JSONFileStorage_LoadFile_NoEmptyCheck(st, f, readFails) ==
    IF st = "absent" THEN [err |-> "nil", tasks |-> << >>]
    ELSE IF readFails \/ st = "empty" THEN [err |-> "io", tasks |-> << >>]
    ELSE [err |-> "nil", tasks |-> f]

\* JSONFileStorage.Load on the file as it is on disk: os.Stat says it does
\* not exist; os.ReadFile or json.Unmarshal fails; no bytes; the decoded
\* collection
JSONFileStorage_LoadFile(st, f, readFails) ==
    IF st = "absent" THEN [err |-> "nil", tasks |-> << >>]
    ELSE IF readFails THEN [err |-> "io", tasks |-> << >>]
    ELSE IF st = "empty" THEN [err |-> "nil", tasks |-> << >>]
    ELSE [err |-> "nil", tasks |-> f]

\* the caller calls Save(ctx, tasks)
Save_Call ==
    /\ wr.pc = "idle"
    /\ \E q \in PtrSeqs :
        wr' = [wr EXCEPT !.pc = "lock", !.op = "Save", !.arg = q,
                         !.given = Values(heap, q), !.prev = Stored, !.prevv = StoredValues]
    /\ UNCHANGED <<file, heap, memTasks, store, fstat, tmp, mu, rd, touched>>

\* the caller calls Add(ctx, t): JSONFileStorage.Add starts with s.Load,
\* InMemoryStorage.Add with s.mutex.Lock
Add_Call ==
    /\ wr.pc = "idle"
    /\ \E p \in Objs :
        wr' = [wr EXCEPT !.pc = IF store = "json" THEN "load" ELSE "lock",
                         !.op = "Add", !.arg = <<p>>,
                         !.given = Values(heap, <<p>>), !.prev = Stored, !.prevv = StoredValues]
    /\ UNCHANGED <<file, heap, memTasks, store, fstat, tmp, mu, rd, touched>>

\* the caller calls Update(ctx, id, t)
Update_Call ==
    /\ wr.pc = "idle"
    /\ \E id \in IDs : \E p \in Objs :
        wr' = [wr EXCEPT !.pc = IF store = "json" THEN "load" ELSE "lock",
                         !.op = "Update", !.id = id, !.arg = <<p>>,
                         !.given = Values(heap, <<p>>), !.prev = Stored, !.prevv = StoredValues]
    /\ UNCHANGED <<file, heap, memTasks, store, fstat, tmp, mu, rd, touched>>

\* the caller calls Delete(ctx, id)
Delete_Call ==
    /\ wr.pc = "idle"
    /\ \E id \in IDs :
        wr' = [wr EXCEPT !.pc = IF store = "json" THEN "load" ELSE "lock",
                         !.op = "Delete", !.id = id, !.prev = Stored, !.prevv = StoredValues]
    /\ UNCHANGED <<file, heap, memTasks, store, fstat, tmp, mu, rd, touched>>

\* JSONFileStorage.Add, Update and Delete: `tasks, err := s.Load(ctx)`, under
\* the read lock
Add_Load ==
    /\ wr.pc = "load"
    /\ ~mu.w
    /\ \E loadFails \in BOOLEAN :
        LET l == JSONFileStorage_LoadFile(fstat, file, loadFails) IN
        wr' = IF l.err # "nil"
              THEN [wr EXCEPT !.pc = "done", !.err = "load"]
              ELSE [wr EXCEPT !.pc = "check", !.loaded = l.tasks]
    /\ UNCHANGED <<file, heap, memTasks, store, fstat, tmp, mu, rd, touched>>

\* Add without the duplicate loop
Add_Outcome_NoDuplicateLoop(existing, t) ==
    IF Validate(t) # "nil" THEN "invalid" ELSE "nil"

\* the two checks of Add, in the order both stores make them
Add_Outcome(existing, t) ==
    IF Validate(t) # "nil" THEN "invalid"
    ELSE IF IndexOf(existing, t.ID) # 0 THEN "duplicate"
    ELSE "nil"

\* JSONFileStorage.Add: Validate, the duplicate loop, then on to s.Save
Add_Check ==
    /\ wr.pc = "check"
    /\ wr.op = "Add"
    /\ LET e == Add_Outcome(wr.loaded, heap[wr.arg[1]]) IN
       wr' = IF e # "nil" THEN [wr EXCEPT !.pc = "done", !.err = e]
             ELSE [wr EXCEPT !.pc = "lock"]
    /\ UNCHANGED <<file, heap, memTasks, store, fstat, tmp, mu, rd, touched>>

\* Update's assignments to t: `t.CreatedAt = existing.CreatedAt; t.ID = id`
Update_Assign(t, existing, id) ==
    [t EXCEPT !.CreatedAt = existing.CreatedAt, !.ID = id]

\* JSONFileStorage.Update: Validate, the search loop with its assignments to
\* t, then on to s.Save
Update_Check ==
    /\ wr.pc = "check"
    /\ wr.op = "Update"
    /\ LET t == heap[wr.arg[1]]
           i == IndexOf(wr.loaded, wr.id)
       IN
       IF Validate(t) # "nil"
       THEN /\ wr' = [wr EXCEPT !.pc = "done", !.err = "invalid"]
            /\ heap' = heap
       ELSE IF i = 0
       THEN /\ wr' = [wr EXCEPT !.pc = "done", !.err = "notfound"]
            /\ heap' = heap
       ELSE /\ wr' = [wr EXCEPT !.pc = "lock"]
            /\ heap' = [heap EXCEPT ![wr.arg[1]] = Update_Assign(t, wr.loaded[i], wr.id)]
    /\ UNCHANGED <<file, memTasks, store, fstat, tmp, mu, rd, touched>>

\* Delete that removes every record from the found one on
Delete_Remove_Rest(tasks, i) == SubSeq(tasks, 1, i - 1)

\* Delete's `tasks = append(tasks[:i], tasks[i+1:]...)`
Delete_Remove(tasks, i) == RemoveAt(tasks, i)

\* JSONFileStorage.Delete: the search loop, then on to s.Save
Delete_Check ==
    /\ wr.pc = "check"
    /\ wr.op = "Delete"
    /\ LET i == IndexOf(wr.loaded, wr.id) IN
       wr' = IF i = 0 THEN [wr EXCEPT !.pc = "done", !.err = "notfound"]
             ELSE [wr EXCEPT !.pc = "lock", !.loaded = Delete_Remove(wr.loaded, i)]
    /\ UNCHANGED <<file, heap, memTasks, store, fstat, tmp, mu, rd, touched>>

\* the tasks argument of the s.Save call at the end of the writer's operation
SaveArg ==
    IF wr.op = "Add" THEN wr.loaded \o Values(heap, wr.arg)
    ELSE IF wr.op = "Update"
    THEN [wr.loaded EXCEPT ![IndexOf(wr.loaded, wr.id)] = heap[wr.arg[1]]]
    ELSE IF wr.op = "Delete" THEN wr.loaded
    ELSE Values(heap, wr.arg)

\* s.mutex.Lock() of Save and of InMemoryStorage.Add, Update and Delete
Store_Lock ==
    /\ wr.pc = "lock"
    /\ ~mu.w
    /\ mu.r = 0
    /\ mu' = [mu EXCEPT !.w = TRUE]
    /\ wr' = [wr EXCEPT !.pc = IF store = "json" THEN "marshal"
                               ELSE IF wr.op = "Add" THEN "add"
                               ELSE IF wr.op = "Update" THEN "update"
                               ELSE IF wr.op = "Delete" THEN "delete"
                               ELSE "make"]
    /\ UNCHANGED <<file, heap, memTasks, store, fstat, tmp, rd, touched>>

\* JSONFileStorage.Save: os.MkdirAll and json.MarshalIndent
Save_Marshal ==
    /\ wr.pc = "marshal"
    /\ \E fails \in BOOLEAN :
        IF fails
        THEN /\ wr' = [wr EXCEPT !.pc = "done", !.err = "prepare"]
             /\ mu' = Unlock(mu)
        ELSE /\ wr' = [wr EXCEPT !.pc = "writetmp", !.data = Marshal(SaveArg)]
             /\ mu' = mu
    /\ UNCHANGED <<file, heap, memTasks, store, fstat, tmp, rd, touched>>

\* Save that writes the data straight to the store's file
Save_WriteTmp_InPlace ==
    /\ wr.pc = "writetmp"
    /\ \E fails \in BOOLEAN :
        IF fails
        THEN /\ file' = Truncated.data
             /\ wr' = [wr EXCEPT !.pc = "done", !.err = "writetmp"]
             /\ mu' = Unlock(mu)
        ELSE /\ file' = wr.data
             /\ wr' = [wr EXCEPT !.pc = "rename"]
             /\ mu' = mu
    /\ UNCHANGED <<tmp, heap, memTasks, store, fstat, rd, touched>>

\* JSONFileStorage.Save: os.WriteFile(tempFile, data, 0644); a failure leaves
\* <path>.tmp as it was (not opened) or truncated (opened, not all written)
Save_WriteTmp ==
    /\ wr.pc = "writetmp"
    /\ \E fails \in BOOLEAN :
        IF fails
        THEN /\ tmp' \in {tmp, Truncated}
             /\ wr' = [wr EXCEPT !.pc = "done", !.err = "writetmp"]
             /\ mu' = Unlock(mu)
        ELSE /\ tmp' = [exists |-> TRUE, data |-> wr.data]
             /\ wr' = [wr EXCEPT !.pc = "rename"]
             /\ mu' = mu
    /\ UNCHANGED <<file, heap, memTasks, store, fstat, rd, touched>>

\* JSONFileStorage.Save: os.Rename(tempFile, s.filePath), and
\* os.Remove(tempFile) when it fails
Save_Rename ==
    /\ wr.pc = "rename"
    /\ \E fails \in BOOLEAN :
        IF fails
        THEN /\ file' = file
             /\ fstat' = fstat
             /\ wr' = [wr EXCEPT !.pc = "done", !.err = "rename"]
        ELSE /\ file' = tmp.data
             /\ fstat' = "json"
             /\ wr' = [wr EXCEPT !.pc = "done", !.err = "nil"]
    /\ tmp' = NoTmp
    /\ mu' = Unlock(mu)
    /\ UNCHANGED <<heap, memTasks, store, rd, touched>>

\* InMemoryStorage.Save: `s.tasks = make([]*task.Task, len(tasks))`
Mem_Make ==
    /\ wr.pc = "make"
    /\ memTasks' = [j \in 1..Len(wr.arg) |-> 0]
    /\ wr' = [wr EXCEPT !.pc = "copy"]
    /\ UNCHANGED <<file, heap, store, fstat, tmp, mu, rd, touched>>

\* InMemoryStorage.Save: `copy(s.tasks, tasks)` and the return
Mem_Copy ==
    /\ wr.pc = "copy"
    /\ memTasks' = wr.arg
    /\ wr' = [wr EXCEPT !.pc = "done", !.err = "nil"]
    /\ mu' = Unlock(mu)
    /\ UNCHANGED <<file, heap, store, fstat, tmp, rd, touched>>

\* InMemoryStorage.Add under the lock: Validate, the duplicate loop, append
Mem_Add ==
    /\ wr.pc = "add"
    /\ LET e == Add_Outcome(Values(heap, memTasks), heap[wr.arg[1]]) IN
        /\ memTasks' = IF e = "nil" THEN Append(memTasks, wr.arg[1]) ELSE memTasks
        /\ wr' = [wr EXCEPT !.pc = "done", !.err = e]
    /\ mu' = Unlock(mu)
    /\ UNCHANGED <<file, heap, store, fstat, tmp, rd, touched>>

\* InMemoryStorage.Update under the lock: Validate, the search loop with its
\* assignments to t and `s.tasks[i] = t`
Mem_Update ==
    /\ wr.pc = "update"
    /\ LET p == wr.arg[1]
           i == IndexOf(Values(heap, memTasks), wr.id)
       IN
       IF Validate(heap[p]) # "nil"
       THEN /\ wr' = [wr EXCEPT !.pc = "done", !.err = "invalid"]
            /\ UNCHANGED <<heap, memTasks>>
       ELSE IF i = 0
       THEN /\ wr' = [wr EXCEPT !.pc = "done", !.err = "notfound"]
            /\ UNCHANGED <<heap, memTasks>>
       ELSE /\ wr' = [wr EXCEPT !.pc = "done", !.err = "nil"]
            /\ heap' = [heap EXCEPT ![p] = Update_Assign(heap[p], heap[memTasks[i]], wr.id)]
            /\ memTasks' = [memTasks EXCEPT ![i] = p]
    /\ mu' = Unlock(mu)
    /\ UNCHANGED <<file, store, fstat, tmp, rd, touched>>

\* InMemoryStorage.Delete under the lock
Mem_Delete ==
    /\ wr.pc = "delete"
    /\ LET i == IndexOf(Values(heap, memTasks), wr.id) IN
       IF i = 0
       THEN /\ wr' = [wr EXCEPT !.pc = "done", !.err = "notfound"]
            /\ memTasks' = memTasks
       ELSE /\ wr' = [wr EXCEPT !.pc = "done", !.err = "nil"]
            /\ memTasks' = Delete_Remove(memTasks, i)
    /\ mu' = Unlock(mu)
    /\ UNCHANGED <<file, heap, store, fstat, tmp, rd, touched>>

\* the second caller calls Load(ctx)
Load_Call ==
    /\ rd.pc = "idle"
    /\ rd' = [rd EXCEPT !.pc = "rlock",
                        !.during = wr.pc \notin {"idle", "done"},
                        !.after = (wr.pc = "done")]
    /\ UNCHANGED <<file, heap, memTasks, store, fstat, tmp, mu, wr, touched>>

\* Load that does not wait for the writer
Load_RLock_NoWait ==
    /\ rd.pc = "rlock"
    /\ mu' = [mu EXCEPT !.r = @ + 1]
    /\ rd' = [rd EXCEPT !.pc = "read"]
    /\ UNCHANGED <<file, heap, memTasks, store, fstat, tmp, wr, touched>>

\* s.mutex.RLock()
Load_RLock ==
    /\ rd.pc = "rlock"
    /\ ~mu.w
    /\ mu' = [mu EXCEPT !.r = @ + 1]
    /\ rd' = [rd EXCEPT !.pc = "read"]
    /\ UNCHANGED <<file, heap, memTasks, store, fstat, tmp, wr, touched>>

\* the body of Load and its return: the decoded file, or a new slice of the
\* stored pointers
Load_Read ==
    /\ rd.pc = "read"
    /\ \E loadFails \in BOOLEAN :
        /\ loadFails => store = "json"
        /\ LET l == IF store = "json"
                    THEN JSONFileStorage_LoadFile(fstat, file, loadFails)
                    ELSE [err |-> "nil", tasks |-> InMemoryStorage_Load(memTasks)]
           IN rd' = [rd EXCEPT !.pc = "done", !.res = l.tasks, !.err = l.err,
                               !.saw = IF store = "json" THEN fstat
                                       ELSE IF memTasks = << >> THEN "absent"
                                       ELSE "mem",
                               !.fault = loadFails]
    /\ mu' = RUnlock(mu)
    /\ UNCHANGED <<file, heap, memTasks, store, fstat, tmp, wr, touched>>

\* the second caller drops the result and is ready to call Load again
Load_Forget ==
    /\ rd.pc = "done"
    /\ rd' = NoRd
    /\ UNCHANGED <<file, heap, memTasks, store, fstat, tmp, mu, wr, touched>>

\* the pointers callers hold: the objects handed to Save or Add, and the
\* ones InMemoryStorage.Load returned
Held ==
    {wr.arg[j] : j \in 1..Len(wr.arg)}
        \cup (IF store = "mem" /\ rd.pc = "done"
              THEN {rd.res[j] : j \in 1..Len(rd.res)} \ {0} ELSE {})

\* a caller changes an object it holds: t.Update(title, ...)
Caller_MutateHeld ==
    /\ ~touched
    /\ \E p \in Held :
        heap' = [heap EXCEPT ![p] =
                    Task_Update(@, IF @.Title = MaxTitleLen THEN 1 ELSE MaxTitleLen)]
    /\ touched' = TRUE
    /\ UNCHANGED <<file, memTasks, store, fstat, tmp, mu, wr, rd>>

\* the wrapper's own fields
wrapperVars == <<autoSaveEnabled, autoSaveTicker, autoSaveStop, workers,
                 unsavedTasks, panicked, lastOp>>

NextStore ==
    \/ Save_Call /\ UNCHANGED <<wrapperVars, exportVars, raceVars>>
    \/ Add_Call /\ UNCHANGED <<wrapperVars, exportVars, raceVars>>
    \/ Add_Load /\ UNCHANGED <<wrapperVars, exportVars, raceVars>>
    \/ Add_Check /\ UNCHANGED <<wrapperVars, exportVars, raceVars>>
    \/ Update_Call /\ UNCHANGED <<wrapperVars, exportVars, raceVars>>
    \/ Update_Check /\ UNCHANGED <<wrapperVars, exportVars, raceVars>>
    \/ Delete_Call /\ UNCHANGED <<wrapperVars, exportVars, raceVars>>
    \/ Delete_Check /\ UNCHANGED <<wrapperVars, exportVars, raceVars>>
    \/ Mem_Update /\ UNCHANGED <<wrapperVars, exportVars, raceVars>>
    \/ Mem_Delete /\ UNCHANGED <<wrapperVars, exportVars, raceVars>>
    \/ Store_Lock /\ UNCHANGED <<wrapperVars, exportVars, raceVars>>
    \/ Save_Marshal /\ UNCHANGED <<wrapperVars, exportVars, raceVars>>
    \/ Save_WriteTmp /\ UNCHANGED <<wrapperVars, exportVars, raceVars>>
    \/ Save_Rename /\ UNCHANGED <<wrapperVars, exportVars, raceVars>>
    \/ Mem_Make /\ UNCHANGED <<wrapperVars, exportVars, raceVars>>
    \/ Mem_Copy /\ UNCHANGED <<wrapperVars, exportVars, raceVars>>
    \/ Mem_Add /\ UNCHANGED <<wrapperVars, exportVars, raceVars>>
    \/ Load_Call /\ UNCHANGED <<wrapperVars, exportVars, raceVars>>
    \/ Load_RLock /\ UNCHANGED <<wrapperVars, exportVars, raceVars>>
    \/ Load_Read /\ UNCHANGED <<wrapperVars, exportVars, raceVars>>
    \/ Load_Forget /\ UNCHANGED <<wrapperVars, exportVars, raceVars>>
    \/ Caller_MutateHeld /\ UNCHANGED <<wrapperVars, exportVars, raceVars>>

SpecStore == StoreInit /\ [][NextStore]_allVars

\* ---- properties of the stores --------------------------------------------
\* the records behind the result of the last Load
ResultValues == IF store = "json" THEN rd.res ELSE Values(heap, rd.res)

\* the records of the collection stored when the writer made its call
PrevValues == wr.prevv

AsSet(s) == {s[i] : i \in 1..Len(s)}

\* C16: callers never hold aliases into a store's state: a caller changing an
\* object it got from Load or passed to Save/Add does not change the records
\* a later Load or GetByID of the store returns.
C16_NoAliases ==
    [][(heap' # heap /\ wr' = wr) => StoredValues' = StoredValues]_allVars

\* C17: JSONFileStorage.Save is atomic under failure: until the rename the
\* file holds the collection persisted before the call; when the write of
\* the temporary file or the rename fails the file still holds it and Save
\* returns an error, and after a failed rename there is no <path>.tmp; a
\* Save that succeeds leaves the encoded data in the file.
C17_SaveAtomic ==
    store = "json" =>
        /\ wr.pc \in {"lock", "marshal", "writetmp", "rename"} => file = wr.prev
        /\ (wr.pc = "done" /\ wr.err \in {"prepare", "writetmp", "rename"}) =>
                file = wr.prev
        /\ (wr.pc = "done" /\ wr.err = "rename") => tmp = NoTmp
        /\ (wr.pc = "done" /\ wr.err = "nil") => (file = wr.data /\ tmp = NoTmp)

\* a Save of a different collection failed at the rename over a non-empty file
C17_Witness ==
    /\ store = "json"
    /\ wr.op = "Save"
    /\ wr.pc = "done"
    /\ wr.err = "rename"
    /\ file = wr.prev
    /\ file # << >>
    /\ wr.data # file
    /\ tmp = NoTmp

\* C18: a Load never returns a partially written collection: while the
\* writer's operation is a Save, a Load's result is the complete collection
\* stored before the Save or the complete collection the Save was given (for
\* the JSON store, the collection its encoding decodes to).
C18_NoPartialLoad ==
    (rd.pc = "done" /\ rd.err = "nil" /\ wr.op = "Save") =>
        \/ rd.res = wr.prev
        \/ IF store = "json" THEN wr.data # NoData /\ rd.res = wr.data
           ELSE rd.res = wr.arg

\* a Load called while the Save was running returned the new collection
C18_Witness ==
    /\ rd.pc = "done"
    /\ rd.err = "nil"
    /\ rd.during
    /\ wr.op = "Save"
    /\ rd.res # wr.prev
    /\ rd.res # << >>

\* C19: after a successful Save(tasks) of records with pairwise distinct IDs,
\* a Load with nothing in between returns the records of tasks, as a set.
C19_RoundTrip ==
    (/\ rd.pc = "done" /\ rd.after /\ rd.err = "nil"
     /\ wr.op = "Save" /\ wr.err = "nil"
     /\ ~touched
     /\ DistinctIDs(wr.given))
        => AsSet(ResultValues) = AsSet(wr.given)

\* C20: when the store could be read, Add of a record that Validate rejects
\* fails with the validation error, Add of a valid record whose ID is stored
\* fails with the duplicate error, and after either failure the store holds
\* the collection it held before the call.
C20_AddRejects ==
    (wr.pc = "done" /\ wr.op = "Add" /\ wr.err # "load" /\ ~touched) =>
        LET t == wr.given[1] IN
        /\ Validate(t) # "nil" => wr.err = "invalid"
        /\ (Validate(t) = "nil" /\ t.ID \in IdsOf(PrevValues)) => wr.err = "duplicate"
        /\ wr.err \in {"invalid", "duplicate"} =>
                (Stored = wr.prev /\ StoredValues = PrevValues)

\* an Add of a valid record with a stored ID was refused
C20_Witness ==
    /\ wr.pc = "done"
    /\ wr.op = "Add"
    /\ wr.err = "duplicate"
    /\ ~touched
    /\ Stored = wr.prev
    /\ Stored # << >>

\* what GetByID(id) on the store returns now: the record in a one-element
\* sequence, or the empty sequence with not-found
StoredGet(id) ==
    IF store = "json" THEN JSONFileStorage_GetByID(file, id, FALSE).val
    ELSE LET g == InMemoryStorage_GetByID(heap, memTasks, id) IN
         IF g.err = "nil" THEN <<heap[g.ptr]>> ELSE << >>

\* the writer's operation ended in an error of the file system
IOFailed == wr.err \in {"load", "prepare", "writetmp", "rename"}

\* C21: Add of a valid record whose ID is not stored succeeds (the file
\* system permitting); afterwards GetByID(record.ID) returns a record with
\* the same fields and the collection is the previous one plus that record.
C21_AddThenGet ==
    (/\ wr.pc = "done" /\ wr.op = "Add" /\ ~touched /\ ~IOFailed
     /\ Validate(wr.given[1]) = "nil"
     /\ wr.given[1].ID \notin IdsOf(PrevValues))
        => /\ wr.err = "nil"
           /\ StoredGet(wr.given[1].ID) = <<wr.given[1]>>
           /\ StoredValues = Append(PrevValues, wr.given[1])

\* C22: Update(id, t), the file system permitting: with a valid t and a
\* stored id the record under id becomes t with ID id and the stored
\* CreatedAt and every other record stays as it was; an invalid t gets the
\* validation error, a valid t with an absent id gets not-found, and both
\* leave the collection unchanged.
C22_Update ==
    (wr.pc = "done" /\ wr.op = "Update" /\ ~touched /\ ~IOFailed) =>
        LET t == wr.given[1]
            i == IndexOf(PrevValues, wr.id)
        IN
        IF Validate(t) # "nil" THEN wr.err = "invalid" /\ StoredValues = PrevValues
        ELSE IF i = 0 THEN wr.err = "notfound" /\ StoredValues = PrevValues
        ELSE /\ wr.err = "nil"
             /\ StoredValues =
                    [PrevValues EXCEPT ![i] = Update_Assign(t, PrevValues[i], wr.id)]

\* C23: Delete(id), the file system permitting: with id not stored it fails
\* with not-found and the collection is unchanged; with id stored it removes
\* the record with that ID and every other record stays, fields unchanged.
C23_Delete ==
    (wr.pc = "done" /\ wr.op = "Delete" /\ ~touched /\ ~IOFailed) =>
        LET i == IndexOf(PrevValues, wr.id) IN
        IF i = 0
        THEN wr.err = "notfound" /\ Stored = wr.prev /\ StoredValues = PrevValues
        ELSE /\ wr.err = "nil"
             /\ StoredValues = RemoveAt(PrevValues, i)
             /\ (DistinctIDs(PrevValues) => wr.id \notin IdsOf(StoredValues))

\* a Delete took the first of two stored records away
C23_Witness ==
    /\ wr.pc = "done"
    /\ wr.op = "Delete"
    /\ wr.err = "nil"
    /\ ~touched
    /\ Len(PrevValues) = 2
    /\ StoredValues = <<PrevValues[2]>>

\* C24: the store's collection holds at most one record per ID, in every
\* reachable state in which no writer is inside the store's lock.
C24_UniqueIDs == ~mu.w => DistinctIDs(StoredValues)

\* C27: every record of the store's collection has CreatedAt <= UpdatedAt,
\* in every reachable state in which no writer is inside the store's lock.
C27_CreatedBeforeUpdated ==
    ~mu.w =>
        \A j \in 1..Len(StoredValues) :
            StoredValues[j].CreatedAt <= StoredValues[j].UpdatedAt

\* C28: a Load that finds no backing data (the file absent, or empty and
\* readable; an InMemoryStorage holding nothing) returns the empty collection
\* and no error.
C28_LoadOfNothing ==
    (rd.pc = "done" /\ (rd.saw = "absent" \/ (rd.saw = "empty" /\ ~rd.fault))) =>
        (rd.err = "nil" /\ rd.res = << >>)

\* a Load of an existing file of no bytes returned
C28_Witness ==
    /\ rd.pc = "done"
    /\ store = "json"
    /\ rd.saw = "empty"
    /\ ~rd.fault
    /\ rd.res = << >>
    /\ rd.err = "nil"

\* ==== concurrent Adds on one JSONFileStorage ===============================
\* N goroutines each call Add with a valid record of their own ID on a store
\* whose file does not exist yet; the file system works.  Add is s.Load
\* (under the read lock) and then s.Save (under the write lock); nothing
\* holds a lock in between.
MaxAdders == 3

\* the record goroutine i adds: ID fmt.Sprintf("test-%d", i)
AdderTask(i) == [InitTask(i) EXCEPT !.ID = <<"test", i>>]

NoAdder == [pc |-> "load", loaded |-> << >>, err |-> "none"]

AddsInit ==
    /\ Init
    /\ MemInit
    /\ ExportInit
    /\ StoreIdle
    /\ fl = NoFl
    /\ fg = NoFg
    /\ gone = {}
    /\ lk = NoLocks
    /\ gr = NoGoroutines
    /\ unsavedRefs = << >>
    /\ \E n \in 1..MaxAdders : adders = [i \in 1..n |-> NoAdder]

\* `tasks, err := s.Load(ctx)`
Adds_Load(i) ==
    /\ adders[i].pc = "load"
    /\ ~mu.w
    /\ adders' = [adders EXCEPT ![i].pc = "check",
                     ![i].loaded = JSONFileStorage_LoadFile(fstat, file, FALSE).tasks]
    /\ UNCHANGED <<file, fstat, tmp, mu>>

\* Validate and the duplicate loop
Adds_Check(i) ==
    /\ adders[i].pc = "check"
    /\ LET e == Add_Outcome(adders[i].loaded, AdderTask(i)) IN
       adders' = IF e # "nil" THEN [adders EXCEPT ![i].pc = "done", ![i].err = e]
                 ELSE [adders EXCEPT ![i].pc = "lock"]
    /\ UNCHANGED <<file, fstat, tmp, mu>>

\* a write lock that does not exclude anybody
Adds_Lock_NoWait(i) ==
    /\ adders[i].pc = "lock"
    /\ mu' = [mu EXCEPT !.w = TRUE]
    /\ adders' = [adders EXCEPT ![i].pc = "writetmp"]
    /\ UNCHANGED <<file, fstat, tmp>>

\* s.Save: s.mutex.Lock()
Adds_Lock(i) ==
    /\ adders[i].pc = "lock"
    /\ ~mu.w
    /\ mu.r = 0
    /\ mu' = [mu EXCEPT !.w = TRUE]
    /\ adders' = [adders EXCEPT ![i].pc = "writetmp"]
    /\ UNCHANGED <<file, fstat, tmp>>

\* s.Save: marshal `append(tasks, t)` and write it to <path>.tmp
Adds_WriteTmp(i) ==
    /\ adders[i].pc = "writetmp"
    /\ tmp' = [exists |-> TRUE,
               data |-> Marshal(Append(adders[i].loaded, AdderTask(i)))]
    /\ adders' = [adders EXCEPT ![i].pc = "rename"]
    /\ UNCHANGED <<file, fstat, mu>>

\* s.Save: os.Rename, which fails when <path>.tmp is not there, and the
\* deferred Unlock
Adds_Rename(i) ==
    /\ adders[i].pc = "rename"
    /\ IF tmp.exists
       THEN /\ file' = tmp.data
            /\ fstat' = "json"
            /\ adders' = [adders EXCEPT ![i].pc = "done", ![i].err = "nil"]
       ELSE /\ UNCHANGED <<file, fstat>>
            /\ adders' = [adders EXCEPT ![i].pc = "done", ![i].err = "rename"]
    /\ tmp' = NoTmp
    /\ mu' = Unlock(mu)

\* what the Adds leave alone
AddsFrame ==
    UNCHANGED <<wrapperVars, memVars, exportVars, store, wr, rd, touched, fl, fg, gone,
                lk, gr, unsavedRefs>>

NextAdds ==
    \/ \E i \in 1..Len(adders) : Adds_Load(i) /\ AddsFrame
    \/ \E i \in 1..Len(adders) : Adds_Check(i) /\ AddsFrame
    \/ \E i \in 1..Len(adders) : Adds_Lock(i) /\ AddsFrame
    \/ \E i \in 1..Len(adders) : Adds_WriteTmp(i) /\ AddsFrame
    \/ \E i \in 1..Len(adders) : Adds_Rename(i) /\ AddsFrame

SpecAdds == AddsInit /\ [][NextAdds]_allVars

\* every Add has returned
AddsDone == \A i \in 1..Len(adders) : adders[i].pc = "done"

\* C25: concurrent Adds of valid records with pairwise distinct IDs on an
\* empty JSONFileStorage all return success, and a Load after the last one
\* succeeds and returns at least one and at most N records, each of them one
\* of the added records.
C25_ConcurrentAdds ==
    /\ \A i \in 1..Len(adders) : adders[i].pc = "done" => adders[i].err = "nil"
    /\ AddsDone =>
        LET l == JSONFileStorage_LoadFile(fstat, file, FALSE) IN
        /\ l.err = "nil"
        /\ Len(l.tasks) >= 1
        /\ Len(l.tasks) <= Len(adders)
        /\ \A j \in 1..Len(l.tasks) :
                \E i \in 1..Len(adders) : l.tasks[j] = AdderTask(i)

\* several Adds returned success and only one record is stored
C25_Witness ==
    /\ AddsDone
    /\ Len(adders) >= 2
    /\ \A i \in 1..Len(adders) : adders[i].err = "nil"
    /\ Len(file) = 1

\* ==== the flush racing the wrapper's methods ===============================
\* Auto-save is enabled.  saveUnsavedTasks runs in the worker goroutine under
\* cs.unsavedMutex alone; the wrapper's methods run one at a time under
\* cs.mutex and take cs.unsavedMutex only around their access to
\* cs.unsavedTasks.  A step that needs cs.unsavedMutex waits while the flush
\* is under way.  The file system works.
\* a task that Validate accepts and whose one-byte title is not valid UTF-8
BadUTF8Task ==
    [ID |-> "a", Title |-> 1, Description |-> MaxDescLen, CreatedAt |-> 1,
     UpdatedAt |-> 1, BadBytes |-> 1]

\* the tasks callers pass in here: the ones Validate accepts
FlushTasks == {t \in Tasks : Validate(t) = "nil"} \cup {BadUTF8Task}

FlushCollections ==
    UNION {{c \in [1..n -> FlushTasks] : DistinctIDs(c)} : n \in 0..Cardinality(IDs)}

\* the wrapper after NewConcurrentStorage and EnableAutoSave
FlushInit ==
    /\ file = << >>
    /\ autoSaveEnabled = TRUE
    /\ autoSaveTicker = "running"
    /\ autoSaveStop = "open"
    /\ workers = 1
    /\ unsavedTasks = << >>
    /\ panicked = FALSE
    /\ lastOp = [Op("EnableAutoSave", "", NoTask, "nil", << >>, << >>, << >>)
                    EXCEPT !.was = FALSE]
    /\ MemInit
    /\ ExportInit
    /\ StoreIdle
    /\ RaceIdle

\* saveUnsavedTasks: unsavedMutex.Lock(), the length check and
\* `currentTasks, err := cs.storage.Load(ctx)`
Flush_Load ==
    /\ fl.pc = "idle"
    /\ unsavedTasks # << >>
    /\ fl' = [pc |-> "loaded", cur |-> JSONFileStorage_Load(file, FALSE).tasks]
    /\ UNCHANGED <<file, unsavedTasks, fg, gone>>

\* saveUnsavedTasks: mergeTasks, cs.storage.Save(ctx, mergedTasks), the
\* buffer cleared, unsavedMutex.Unlock()
Flush_Save ==
    /\ fl.pc = "loaded"
    /\ \E mergedTasks \in mergeTasks(fl.cur, unsavedTasks) :
        file' = JSONFileStorage_Save(file, mergedTasks, FALSE).file
    /\ unsavedTasks' = << >>
    /\ fl' = NoFl
    /\ UNCHANGED <<fg, gone>>

\* cs.Add(ctx, t) with auto-save enabled: QueueTaskForSave under both locks
Wrapper_Add ==
    /\ fg.pc = "idle"
    /\ fl.pc = "idle"
    /\ \E t \in FlushTasks :
        /\ unsavedTasks' = QueueTaskForSave(unsavedTasks, autoSaveEnabled, t)
        /\ gone' = gone \ {t.ID}
        /\ fg' = [NoFg EXCEPT !.op = "Add", !.id = t.ID, !.err = "nil"]
    /\ UNCHANGED <<file, fl>>

\* cs.Update(ctx, id, t) with auto-save enabled: QueueTaskForSave(t)
Wrapper_Update ==
    /\ fg.pc = "idle"
    /\ fl.pc = "idle"
    /\ \E id \in IDs : \E t \in FlushTasks :
        /\ unsavedTasks' = QueueTaskForSave(unsavedTasks, autoSaveEnabled, t)
        /\ gone' = gone \ {t.ID}
        /\ fg' = [NoFg EXCEPT !.op = "Update", !.id = id, !.err = "nil"]
    /\ UNCHANGED <<file, fl>>

\* cs.QueueTaskForSave(t) called by a user of the wrapper: it takes
\* unsavedMutex and never cs.mutex, so it also runs while a wrapper method is
\* under way
Caller_Queue ==
    /\ fl.pc = "idle"
    /\ \E t \in FlushTasks :
        /\ unsavedTasks' = QueueTaskForSave(unsavedTasks, autoSaveEnabled, t)
        /\ gone' = gone \ {t.ID}
    /\ UNCHANGED <<file, fl, fg>>

\* cs.Save(ctx, tasks): cs.mutex.Lock(), then the buffer cleared under
\* unsavedMutex
Wrapper_Save_Clear ==
    /\ fg.pc = "idle"
    /\ fl.pc = "idle"
    /\ \E tasks \in FlushCollections :
        fg' = [NoFg EXCEPT !.pc = "save", !.op = "Save", !.tasks = tasks]
    /\ unsavedTasks' = << >>
    /\ UNCHANGED <<file, fl, gone>>

\* cs.Save: `return cs.storage.Save(ctx, tasks)`
Wrapper_Save_Store ==
    /\ fg.pc = "save"
    /\ file' = JSONFileStorage_Save(file, fg.tasks, FALSE).file
    /\ gone' = gone \ IdsOf(fg.tasks)
    /\ fg' = [NoFg EXCEPT !.op = "Save", !.err = "nil"]
    /\ UNCHANGED <<unsavedTasks, fl>>

\* cs.Delete(ctx, id): cs.mutex.Lock(), then the purge loop under unsavedMutex
Wrapper_Delete_Purge ==
    /\ fg.pc = "idle"
    /\ fl.pc = "idle"
    /\ \E id \in IDs :
        /\ unsavedTasks' = PurgeUnsaved(unsavedTasks, id)
        /\ fg' = [NoFg EXCEPT !.pc = "delete", !.op = "Delete", !.id = id]
    /\ UNCHANGED <<file, fl, gone>>

\* cs.Delete: `return cs.storage.Delete(ctx, id)`
Wrapper_Delete_Store ==
    /\ fg.pc = "delete"
    /\ LET r == JSONFileStorage_Delete(file, fg.id, FALSE, FALSE) IN
        /\ file' = r.file
        \* a record queued while the Delete was under way is a later
        \* re-introduction
        /\ gone' = IF r.err = "nil" /\ fg.id \notin IdsOf(unsavedTasks)
                   THEN gone \cup {fg.id} ELSE gone
        /\ fg' = [NoFg EXCEPT !.op = "Delete", !.id = fg.id, !.err = r.err]
    /\ UNCHANGED <<unsavedTasks, fl>>

\* cs.Load(ctx): cs.mutex.RLock() and `tasks, err := cs.storage.Load(ctx)`
Wrapper_Load_Store ==
    /\ fg.pc = "idle"
    /\ fg' = [NoFg EXCEPT !.pc = "load", !.op = "Load",
                          !.tasks = JSONFileStorage_Load(file, FALSE).tasks]
    /\ UNCHANGED <<file, unsavedTasks, fl, gone>>

\* cs.Load: the merge with cs.unsavedTasks under unsavedMutex, and the return
Wrapper_Load_Merge ==
    /\ fg.pc = "load"
    /\ fl.pc = "idle"
    /\ fg' = [NoFg EXCEPT !.op = "Load", !.err = "nil"]
    /\ UNCHANGED <<file, unsavedTasks, fl, gone>>

\* what the race leaves alone
FlushFrame ==
    UNCHANGED <<autoSaveEnabled, autoSaveTicker, autoSaveStop, workers, panicked,
                lastOp, memVars, exportVars, storeVars, adders, lk, gr, unsavedRefs>>

NextFlush ==
    \/ Flush_Load /\ FlushFrame
    \/ Flush_Save /\ FlushFrame
    \/ Wrapper_Add /\ FlushFrame
    \/ Wrapper_Update /\ FlushFrame
    \/ Caller_Queue /\ FlushFrame
    \/ Wrapper_Save_Clear /\ FlushFrame
    \/ Wrapper_Save_Store /\ FlushFrame
    \/ Wrapper_Delete_Purge /\ FlushFrame
    \/ Wrapper_Delete_Store /\ FlushFrame
    \/ Wrapper_Load_Store /\ FlushFrame
    \/ Wrapper_Load_Merge /\ FlushFrame

SpecFlush == FlushInit /\ [][NextFlush]_allVars

\* this step is a call of the underlying store made by a wrapper method
StoreCallStep ==
    \/ fg.pc \in {"save", "delete"} /\ fg'.pc = "idle"
    \/ fg.pc = "idle" /\ fg'.pc = "load"

\* C29: between the Load and the Save of a flush no wrapper method calls the
\* underlying store.
C29_FlushWindowExclusive == [][fl.pc = "loaded" => ~StoreCallStep]_allVars

\* C30: an ID deleted through the wrapper with success, and not added,
\* updated or saved again since, is not in the underlying store.
C30_DeleteSticks == \A id \in gone : id \notin IdsOf(file)

\* C38: the wrapper's Save(tasks) empties the pending buffer before it calls
\* the underlying Save, whatever that call returns; and when it returns
\* success with no call made meanwhile, the buffer is empty and the wrapper's
\* Load returns exactly tasks.
C38_SaveReplaces ==
    [][/\ (fg.pc = "idle" /\ fg'.pc = "save") => unsavedTasks' = << >>
       /\ (fg.pc = "save" /\ fg'.pc = "idle" /\ fg'.err = "nil"
                /\ unsavedTasks' = << >>)
            => LoadResults(file', unsavedTasks', FALSE)
                    = {[err |-> "nil", val |-> fg.tasks]}
    ]_allVars

\* ==== the wrapper's locks =================================================
\* Every method of the wrapper, and the flush, as the sequence of lock
\* operations it performs on cs.mutex ("cs"), cs.unsavedMutex ("un") and the
\* mutex of the store behind it ("st").  Which records are in the
\* buffer or in the file decides only which branch a method takes: every
\* branch is taken here.
Instr(k, m) == [k |-> k, m |-> m]

\* JSONFileStorage.Load: s.mutex.RLock() ... defer s.mutex.RUnlock()
StoreLoad == <<Instr("RLock", "st"), Instr("RUnlock", "st")>>

\* JSONFileStorage.Save: s.mutex.Lock() ... defer s.mutex.Unlock()
StoreSave == <<Instr("Lock", "st"), Instr("Unlock", "st")>>

\* JSONFileStorage.Add, Update and Delete: s.Load, then an early return (load
\* error, invalid task, duplicate or unknown ID) or s.Save.  The same methods
\* of InMemoryStorage lock its mutex once, as Save does.
StoreWrite == {StoreLoad, StoreLoad \o StoreSave, StoreSave}

\* an access to cs.unsavedTasks: cs.unsavedMutex.Lock() ... Unlock()
Buffer == <<Instr("Lock", "un"), Instr("Unlock", "un")>>

\* saveUnsavedTasks taking cs.mutex around its calls of the store
FlushPaths_OuterLock ==
    {Buffer,
     <<Instr("Lock", "un"), Instr("Lock", "cs")>> \o StoreLoad \o StoreSave
        \o <<Instr("Unlock", "cs"), Instr("Unlock", "un")>>}

\* saveUnsavedTasks: unsavedMutex held to the end; nothing more when the
\* buffer is empty, else storage.Load and storage.Save
FlushPaths ==
    {Buffer,
     <<Instr("Lock", "un")>> \o StoreLoad \o StoreSave \o <<Instr("Unlock", "un")>>}

\* the Storage methods of the wrapper, its switch, and QueueTaskForSave
Methods ==
    {"Load", "Save", "Add", "Update", "Delete", "GetByID",
     "EnableAutoSave", "DisableAutoSave", "QueueTaskForSave"}

\* how a method takes cs.mutex on entry and gives it back by its defer
Entry(op) ==
    IF op = "QueueTaskForSave" THEN << >>
    ELSE IF op \in {"Load", "GetByID"} THEN <<Instr("RLock", "cs")>>
    ELSE <<Instr("Lock", "cs")>>

Exit(op) ==
    IF op = "QueueTaskForSave" THEN << >>
    ELSE IF op \in {"Load", "GetByID"} THEN <<Instr("RUnlock", "cs")>>
    ELSE <<Instr("Unlock", "cs")>>

\* what a method does between entry and exit, given cs.autoSaveEnabled
Body(op, enabled) ==
    CASE op \in {"Add", "Update"} -> IF enabled THEN {Buffer} ELSE StoreWrite
      [] op = "Delete" ->
            IF enabled THEN {Buffer \o p : p \in StoreWrite} ELSE StoreWrite
      [] op = "Save" -> {Buffer \o StoreSave}
      [] op = "Load" -> {StoreLoad, StoreLoad \o Buffer}
      [] op = "GetByID" -> {Buffer, Buffer \o StoreLoad}
      [] op = "QueueTaskForSave" -> IF enabled THEN {Buffer} ELSE {<< >>}
      [] OTHER -> {<< >>}

\* g is left with prog: a caller whose method is over is idle again, a worker
\* returns after its final flush
Rest(g, prog) ==
    IF prog # << >> THEN [gr[g] EXCEPT !.prog = prog]
    ELSE IF g \in Callers \/ gr[g].last THEN NoGoroutine
    ELSE [gr[g] EXCEPT !.prog = << >>]

\* the live autoSaveWorker goroutines once g is left with prog
Live(g, prog) ==
    IF g \in WorkerIds /\ prog = << >> /\ gr[g].last THEN workers - 1 ELSE workers

\* a caller calls a method of the wrapper
Caller_Call(g) ==
    /\ ~panicked
    /\ g \in Callers
    /\ gr[g].op = "none"
    /\ \E op \in Methods :
        gr' = [gr EXCEPT ![g] = [op |-> op, prog |-> Entry(op) \o <<Instr("Body", "")>>,
                                 last |-> FALSE]]
    /\ UNCHANGED <<lk, autoSaveEnabled, autoSaveTicker, autoSaveStop, workers, panicked>>

\* Lock() and RLock() return once the lock is free for them
Acquire(g) ==
    /\ ~panicked
    /\ gr[g].prog # << >>
    /\ LET i == Head(gr[g].prog) IN
        /\ i.k \in {"Lock", "RLock"}
        /\ lk[i.m].w = "none"
        /\ i.k = "Lock" => lk[i.m].r = {}
        /\ lk' = IF i.k = "Lock" THEN [lk EXCEPT ![i.m].w = g]
                 ELSE [lk EXCEPT ![i.m].r = @ \cup {g}]
    /\ gr' = [gr EXCEPT ![g].prog = Tail(gr[g].prog)]
    /\ UNCHANGED <<autoSaveEnabled, autoSaveTicker, autoSaveStop, workers, panicked>>

\* Unlock() and RUnlock()
Release(g) ==
    /\ ~panicked
    /\ gr[g].prog # << >>
    /\ LET i == Head(gr[g].prog) IN
        /\ i.k \in {"Unlock", "RUnlock"}
        /\ lk' = IF i.k = "Unlock" THEN [lk EXCEPT ![i.m].w = "none"]
                 ELSE [lk EXCEPT ![i.m].r = @ \ {g}]
    /\ gr' = [gr EXCEPT ![g] = Rest(g, Tail(gr[g].prog))]
    /\ workers' = Live(g, Tail(gr[g].prog))
    /\ UNCHANGED <<autoSaveEnabled, autoSaveTicker, autoSaveStop, panicked>>

\* the method reads cs.autoSaveEnabled and goes on; EnableAutoSave starts a
\* worker, DisableAutoSave closes cs.autoSaveStop (a panic if it is closed)
Method_Body(g) ==
    /\ ~panicked
    /\ gr[g].prog # << >>
    /\ Head(gr[g].prog).k = "Body"
    /\ LET op == gr[g].op IN
        /\ \E path \in Body(op, autoSaveEnabled) :
            LET started == op = "EnableAutoSave" /\ ~autoSaveEnabled
                w == CHOOSE w \in WorkerIds :
                        gr[w].op = "none" /\ (w = "w2" => gr["w1"].op # "none")
            IN
            gr' = [h \in DOMAIN gr |->
                    IF h = g THEN Rest(g, path \o Exit(op))
                    ELSE IF started /\ h = w
                    THEN [op |-> "worker", prog |-> << >>, last |-> FALSE]
                    ELSE gr[h]]
        /\ IF op = "EnableAutoSave" /\ ~autoSaveEnabled
           THEN /\ autoSaveEnabled' = TRUE
                /\ autoSaveTicker' = "running"
                /\ workers' = workers + 1
                /\ UNCHANGED <<autoSaveStop, panicked>>
           ELSE IF op = "DisableAutoSave" /\ autoSaveEnabled
           THEN /\ autoSaveEnabled' = FALSE
                /\ autoSaveTicker' = "stopped"
                /\ IF autoSaveStop = "closed"
                   THEN panicked' = TRUE /\ UNCHANGED autoSaveStop
                   ELSE autoSaveStop' = "closed" /\ UNCHANGED panicked
                /\ UNCHANGED workers
           ELSE UNCHANGED <<autoSaveEnabled, autoSaveTicker, autoSaveStop, workers,
                            panicked>>
    /\ UNCHANGED lk

\* autoSaveWorker: case <-cs.autoSaveTicker.C
Worker_Tick(w) ==
    /\ ~panicked
    /\ w \in WorkerIds
    /\ gr[w].op = "worker"
    /\ gr[w].prog = << >>
    /\ autoSaveTicker = "running"
    /\ \E path \in FlushPaths : gr' = [gr EXCEPT ![w].prog = path, ![w].last = FALSE]
    /\ UNCHANGED <<lk, autoSaveEnabled, autoSaveTicker, autoSaveStop, workers, panicked>>

\* autoSaveWorker: case <-cs.autoSaveStop, the final flush and the return
Worker_Stop(w) ==
    /\ ~panicked
    /\ w \in WorkerIds
    /\ gr[w].op = "worker"
    /\ gr[w].prog = << >>
    /\ autoSaveStop = "closed"
    /\ \E path \in FlushPaths : gr' = [gr EXCEPT ![w].prog = path, ![w].last = TRUE]
    /\ UNCHANGED <<lk, autoSaveEnabled, autoSaveTicker, autoSaveStop, workers, panicked>>

LocksFrame ==
    UNCHANGED <<file, unsavedTasks, lastOp, memVars, exportVars, storeVars,
                adders, fl, fg, gone, unsavedRefs>>

NextLocks ==
    \/ \E g \in Callers : Caller_Call(g) /\ LocksFrame
    \/ \E g \in Callers \cup WorkerIds : Acquire(g) /\ LocksFrame
    \/ \E g \in Callers \cup WorkerIds : Release(g) /\ LocksFrame
    \/ \E g \in Callers : Method_Body(g) /\ LocksFrame
    \/ \E w \in WorkerIds : Worker_Tick(w) /\ LocksFrame
    \/ \E w \in WorkerIds : Worker_Stop(w) /\ LocksFrame

SpecLocks == InitAll /\ [][NextLocks]_allVars

\* ---- properties of the locks ----------------------------------------------
Goroutines == Callers \cup WorkerIds

Busy(g) == gr[g].prog # << >>

Holds(g, m) == lk[m].w = g \/ g \in lk[m].r

\* g's next operation is Lock or RLock of m
Requests(g, m) ==
    /\ Busy(g)
    /\ Head(gr[g].prog).k \in {"Lock", "RLock"}
    /\ Head(gr[g].prog).m = m

\* the goroutines g has to wait for before its next operation returns: the
\* holders of the lock it asks for and, for RLock, the goroutines blocked in
\* Lock of the same lock (sync.RWMutex lets no new reader pass a waiting
\* writer)
WaitsFor(g) ==
    IF ~Busy(g) THEN {}
    ELSE LET i == Head(gr[g].prog) IN
         IF i.k = "Lock"
         THEN {h \in Goroutines \ {g} : Holds(h, i.m)}
         ELSE IF i.k = "RLock"
         THEN {h \in Goroutines \ {g} :
                    lk[i.m].w = h \/ (Busy(h) /\ Head(gr[h].prog) = Instr("Lock", i.m))}
         ELSE {}

\* the goroutines that get to their next operation once those in done have
\* moved on
RECURSIVE Unblocked(_, _)
Unblocked(done, n) ==
    IF n = 0 THEN done
    ELSE Unblocked(done \cup {g \in Goroutines : WaitsFor(g) \subseteq done}, n - 1)

\* C34: no goroutines wait for one another for ever on cs.mutex,
\* cs.unsavedMutex and the store's mutex: following who waits for whom always
\* ends at a goroutine that can go on.  No goroutine asks for cs.mutex while
\* it holds cs.unsavedMutex or the store's mutex, nor for cs.unsavedMutex
\* while it holds the store's mutex; a worker never holds cs.mutex; and a
\* Storage method of the wrapper holds cs.mutex whenever it asks for or holds
\* cs.unsavedMutex.
C34_NoDeadlock ==
    ~panicked =>
        /\ Unblocked({}, Cardinality(Goroutines)) = Goroutines
        /\ \A g \in Goroutines :
            /\ Requests(g, "cs") => ~Holds(g, "un") /\ ~Holds(g, "st")
            /\ Requests(g, "un") => ~Holds(g, "st")
        /\ \A w \in WorkerIds : ~Holds(w, "cs")
        /\ \A c \in Callers :
            (gr[c].op # "QueueTaskForSave" /\ (Requests(c, "un") \/ Holds(c, "un")))
                => Holds(c, "cs")

\* a worker flushes under the buffer lock, a caller inside cs.mutex waits for
\* the buffer lock and the other caller waits for cs.mutex
C34_Witness ==
    /\ lk["un"].w \in WorkerIds
    /\ Holds(lk["un"].w, "st")
    /\ \E c, d \in Callers :
        /\ c # d
        /\ lk["cs"].w = c
        /\ Requests(c, "un")
        /\ Requests(d, "cs")

\* ==== the pending buffer as a slice of pointers ===========================
\* cs.unsavedTasks holds the *task.Task pointers the callers passed in, and
\* JSONFileStorage.Update assigns to the object it is given.  The wrapper's
\* methods are atomic here and the file system works; the records behind the
\* pointers are in heap.

\* QueueTaskForSave(t) on the slice of pointers: the search loop compares the
\* IDs the objects have now
QueueRef(refs, h, p) ==
    LET i == IndexOf(Values(h, refs), h[p].ID) IN
    IF i # 0 THEN [refs EXCEPT ![i] = p] ELSE Append(refs, p)

\* cs.Add(ctx, t)
Refs_Add ==
    /\ ~panicked
    /\ \E p \in Objs :
        IF autoSaveEnabled
        THEN /\ unsavedRefs' = QueueRef(unsavedRefs, heap, p)
             /\ UNCHANGED file
        ELSE /\ file' = JSONFileStorage_Add(file, heap[p], FALSE, FALSE).file
             /\ UNCHANGED unsavedRefs
    /\ UNCHANGED <<heap, workers>>

\* cs.Update(ctx, id, t): queued as it is while enabled; else
\* JSONFileStorage.Update, whose search loop sets t.CreatedAt and t.ID
Refs_Update ==
    /\ ~panicked
    /\ \E id \in IDs : \E p \in Objs :
        IF autoSaveEnabled
        THEN /\ unsavedRefs' = QueueRef(unsavedRefs, heap, p)
             /\ UNCHANGED <<file, heap>>
        ELSE LET r == JSONFileStorage_Update(file, id, heap[p], FALSE, FALSE) IN
             /\ file' = r.file
             /\ heap' = IF r.err = "nil"
                        THEN [heap EXCEPT ![p] =
                                Update_Assign(heap[p], file[IndexOf(file, id)], id)]
                        ELSE heap
             /\ UNCHANGED unsavedRefs
    /\ UNCHANGED workers

\* cs.Delete(ctx, id): the purge loop while enabled, then storage.Delete
Refs_Delete ==
    /\ ~panicked
    /\ \E id \in IDs :
        LET i == IndexOf(Values(heap, unsavedRefs), id) IN
        /\ unsavedRefs' = IF autoSaveEnabled /\ i # 0 THEN RemoveAt(unsavedRefs, i)
                          ELSE unsavedRefs
        /\ file' = JSONFileStorage_Delete(file, id, FALSE, FALSE).file
    /\ UNCHANGED <<heap, workers>>

\* saveUnsavedTasks: the records behind the pointers merged over the file
Refs_Flush ==
    IF unsavedRefs = << >> THEN UNCHANGED <<file, unsavedRefs>>
    ELSE /\ \E mergedTasks \in mergeTasks(file, Values(heap, unsavedRefs)) :
            file' = JSONFileStorage_Save(file, mergedTasks, FALSE).file
         /\ unsavedRefs' = << >>

\* autoSaveWorker: case <-cs.autoSaveTicker.C
Refs_WorkerTick ==
    /\ ~panicked
    /\ workers > 0
    /\ autoSaveTicker = "running"
    /\ Refs_Flush
    /\ UNCHANGED <<heap, workers>>

\* autoSaveWorker: case <-cs.autoSaveStop
Refs_WorkerStop ==
    /\ ~panicked
    /\ workers > 0
    /\ autoSaveStop = "closed"
    /\ Refs_Flush
    /\ workers' = workers - 1
    /\ UNCHANGED heap

RefsFrame ==
    UNCHANGED <<autoSaveEnabled, autoSaveTicker, autoSaveStop, panicked, lastOp,
                unsavedTasks, memTasks, exportVars, storeVars, adders, fl, fg, gone,
                lk, gr>>

NextRefs ==
    \/ EnableAutoSave /\ LiveFrame
    \/ DisableAutoSave /\ LiveFrame
    \/ Refs_Add /\ RefsFrame
    \/ Refs_Update /\ RefsFrame
    \/ Refs_Delete /\ RefsFrame
    \/ Refs_WorkerTick /\ RefsFrame
    \/ Refs_WorkerStop /\ RefsFrame

SpecRefs == InitAll /\ [][NextRefs]_allVars

\* C36: the pending buffer never holds two entries with the same ID.
C36_OnePendingPerID == DistinctIDs(Values(heap, unsavedRefs))

====
